---------------------------- MODULE Spec2Model ----------------------------
(***************************************************************************)
(* A model of CLOWarden (cncf/clowarden): the state diff of the GitHub     *)
(* service (clowarden-core), the reconciliation loop of its service        *)
(* handler, and the jobs engine of the server (clowarden-server).          *)
(*                                                                         *)
(* Three specifications share this module:                                 *)
(*   SpecDiff       State::diff / Directory::diff as pure functions        *)
(*   SpecReconcile  Handler::reconcile against a model of the platform     *)
(*   SpecJobs       jobs router, organization workers and scheduler        *)
(***************************************************************************)
EXTENDS Integers, Sequences, FiniteSets, TLC

VARIABLES
    \* --- SpecDiff
    diffPc, diffOld, diffNew, diffOut,
    \* --- SpecReconcile: the platform (GitHub organization) and the config
    svcTeams, svcRepos, orgAdmins, orgMembers, cfgTeams, cfgRepos,
    \* --- SpecReconcile: one run of Handler::reconcile
    recPc, actual_state, desired_state, changes, dirPending, repoPending,
    changes_applied, skipped, gwTrace, invCache, failures,
    \* --- SpecJobs
    jobsChan, orgChan, routerPc, workerPc, inflight, stopSignal,
    schedPc, schedIdx, nextJobId, sentLog, started, mutTrace,
    \* --- SpecValidate: State::new_from_config evaluated twice
    valPc, valTeams, valRepos, valSvcRepos, valAdmins, valMembers, valOut, valOut2,
    \* --- SpecWebhook: one webhook request and the validate job it sends
    hookPc, request, webhook_secret_fallback, response, jobs_tx, ghLog,
    vjPc, merr, vjReturn, hookCalls,
    \* --- SpecLoader: the passes of sheriff::Cfg::get over the parsed teams
    loadPc, loadCfg, loadTeams,
    \* --- SpecSummary: Handler::get_changes_summary on a head and a base
    sumPc, sumHead, sumBase, sumFetch, sumLogins, sumOut,
    \* --- SpecReconcileJob: one run of Handler::handle_reconcile_job
    rjPc, input, services, rjPending, rjApplied, rjErrors, rjLog,
    \* --- SpecScheduler: the scheduler task against the clock
    tkPc, clock, timeout, tkIdx, stop_rx, tkLog,
    \* --- SpecCache: the cached list operations of SvcApi, for two organizations
    ghAdmins, ghMembers, ghInvitations, adminsCache, membersCache, invitationsCache, lastCall,
    \* --- SpecGateway: one operation of SvcApi and the requests it makes
    apiPc, apiOp, apiRequests, apiLog, apiResult

diffVars == <<diffPc, diffOld, diffNew, diffOut>>
platformVars == <<svcTeams, svcRepos, orgAdmins, orgMembers, cfgTeams, cfgRepos>>
runVars == <<recPc, actual_state, desired_state, changes, dirPending, repoPending,
             changes_applied, skipped, gwTrace, invCache, failures>>
recVars == <<platformVars, runVars>>
jobVars == <<jobsChan, orgChan, routerPc, workerPc, inflight, stopSignal,
             schedPc, schedIdx, nextJobId, sentLog, started, mutTrace>>
valVars == <<valPc, valTeams, valRepos, valSvcRepos, valAdmins, valMembers, valOut, valOut2>>
hookVars == <<hookPc, request, webhook_secret_fallback, response, jobs_tx, ghLog,
              vjPc, merr, vjReturn, hookCalls>>
loadVars == <<loadPc, loadCfg, loadTeams>>
sumVars == <<sumPc, sumHead, sumBase, sumFetch, sumLogins, sumOut>>
rjVars == <<rjPc, input, services, rjPending, rjApplied, rjErrors, rjLog>>
tickVars == <<tkPc, clock, timeout, tkIdx, stop_rx, tkLog>>
cacheVars == <<ghAdmins, ghMembers, ghInvitations, adminsCache, membersCache, invitationsCache, lastCall>>
apiVars == <<apiPc, apiOp, apiRequests, apiLog, apiResult>>
vars == <<diffVars, recVars, jobVars, valVars, hookVars, loadVars, sumVars, rjVars, tickVars, cacheVars, apiVars>>

\* What the steps of one specification leave alone.
outsideDiff == <<recVars, jobVars, valVars, hookVars, loadVars, sumVars, rjVars, tickVars, cacheVars, apiVars>>
outsideReconcile == <<diffVars, jobVars, valVars, hookVars, loadVars, sumVars, rjVars, tickVars, cacheVars, apiVars>>
outsideJobs == <<diffVars, recVars, valVars, hookVars, loadVars, sumVars, rjVars, tickVars, cacheVars, apiVars>>
outsideValidate == <<diffVars, recVars, jobVars, hookVars, loadVars, sumVars, rjVars, tickVars, cacheVars, apiVars>>
outsideWebhook == <<diffVars, recVars, jobVars, valVars, loadVars, sumVars, rjVars, tickVars, cacheVars, apiVars>>
outsideLoader == <<diffVars, recVars, jobVars, valVars, hookVars, sumVars, rjVars, tickVars, cacheVars, apiVars>>
outsideSummary == <<diffVars, recVars, jobVars, valVars, hookVars, loadVars, rjVars, tickVars, cacheVars, apiVars>>
outsideReconcileJob == <<diffVars, recVars, jobVars, valVars, hookVars, loadVars, sumVars, tickVars, cacheVars, apiVars>>
outsideScheduler == <<diffVars, recVars, jobVars, valVars, hookVars, loadVars, sumVars, rjVars, cacheVars, apiVars>>
outsideCache == <<diffVars, recVars, jobVars, valVars, hookVars, loadVars, sumVars, rjVars, tickVars, apiVars>>
outsideGateway == <<diffVars, recVars, jobVars, valVars, hookVars, loadVars, sumVars, rjVars, tickVars, cacheVars>>

---------------------------------------------------------------------------
(* Names.  Teams, users and repositories are identified by their names.    *)

TeamNames == {"t1", "t2"}
UserNames == {"u1", "u2"}
RepoNames == {"r1", "r2"}
FullNames == {"f1"}

\* Role (state.rs), in ascending order of privilege; 0 stands for "no entry".
Read == 1
Triage == 2
Write == 3
Maintain == 4
Admin == 5
Roles == Read..Admin
NoRole == 0

\* Visibility (state.rs); "none" stands for Option::None.
Visibilities == {"internal", "private", "public"}
Visibility_default == "public"

---------------------------------------------------------------------------
(* Sequences helpers.                                                      *)

Range(s) == {s[i] : i \in DOMAIN s}

\* All the orders in which the elements of S can be visited.
Perms(S) == {s \in [1..Cardinality(S) -> S] : Range(s) = S}

\* The elements of S in the order ord visits them: the iteration of a hash
\* set whose iteration order is ord.
InOrder(S, ord) == SelectSeq(ord, LAMBDA x : x \in S)

RECURSIVE Concat(_)
Concat(ss) == IF ss = <<>> THEN <<>> ELSE Head(ss) \o Concat(Tail(ss))

\* The sorted order of the names (Vec::sort on strings).
SortedUsers == <<"u1", "u2">>
SortedTeams == <<"t1", "t2">>
SortedRepos == <<"r1", "r2">>
SortedFullNames == <<"f1">>

---------------------------------------------------------------------------
(* Data model.  A map keyed by name is a total function over the names,    *)
(* an absent key being marked (present = FALSE, role = NoRole).            *)

NoTeam == [present |-> FALSE, maintainers |-> {}, members |-> {}]
Team(ma, me) == [present |-> TRUE, maintainers |-> ma, members |-> me]

NoRoles(S) == [x \in S |-> NoRole]
Keys(m) == {k \in DOMAIN m : m[k] # NoRole}

NoRepo == [present |-> FALSE, teams |-> NoRoles(TeamNames),
           collaborators |-> NoRoles(UserNames), visibility |-> "none"]
Repository(ts, cs, v) == [present |-> TRUE, teams |-> ts, collaborators |-> cs,
                          visibility |-> v]

NoUser == [present |-> FALSE, email |-> ""]
User(email) == [present |-> TRUE, email |-> email]

Present(m) == {k \in DOMAIN m : m[k].present}

EmptyDirectory == [teams |-> [t \in TeamNames |-> NoTeam],
                   users |-> [f \in FullNames |-> NoUser]]
EmptyState == [directory |-> EmptyDirectory,
               repositories |-> [r \in RepoNames |-> NoRepo]]

---------------------------------------------------------------------------
(* DirectoryChange (directory/mod.rs) and RepositoryChange (state.rs).     *)

DChange(kind, team, user) ==
    [kind |-> kind, team |-> team, user |-> user, maintainers |-> {}, members |-> {}]
\* A TeamAdded that would carry the name of the team only.
DTeamAddedNameOnly(name, team) ==
    [kind |-> "TeamAdded", team |-> name, user |-> "", maintainers |-> {}, members |-> {}]

DTeamAdded(name, team) ==
    [kind |-> "TeamAdded", team |-> name, user |-> "",
     maintainers |-> team.maintainers, members |-> team.members]

RChange(kind, repo, name, role, vis) ==
    [kind |-> kind, repo |-> repo, name |-> name, role |-> role, visibility |-> vis,
     teams |-> NoRoles(TeamNames), collaborators |-> NoRoles(UserNames)]
\* A RepositoryAdded that would carry the name of the repository only.
RRepositoryAddedNameOnly(name, repo) ==
    [kind |-> "RepositoryAdded", repo |-> name, name |-> "", role |-> NoRole,
     visibility |-> "none", teams |-> NoRoles(TeamNames),
     collaborators |-> NoRoles(UserNames)]

RRepositoryAdded(name, repo) ==
    [kind |-> "RepositoryAdded", repo |-> name, name |-> "", role |-> NoRole,
     visibility |-> repo.visibility, teams |-> repo.teams,
     collaborators |-> repo.collaborators]

UserChangeKinds == {"UserAdded", "UserRemoved", "UserUpdated"}

---------------------------------------------------------------------------
(* Directory::diff.  The hash maps and sets of the code are iterated in an *)
(* unspecified order: ordT, ordU and ordF are the orders in which team     *)
(* names, user names and full names are visited.                           *)

\* A comparison of one team that would push the additions first.
TeamMembersChangesAdditionsFirst(old, new, t, ordU) ==
    LET mo == old.teams[t].maintainers
        mn == new.teams[t].maintainers
        eo == old.teams[t].members
        en == new.teams[t].members
        Each(kind, S) == [i \in 1..Len(InOrder(S, ordU)) |->
                            DChange(kind, t, InOrder(S, ordU)[i])]
    IN  Each("TeamMaintainerAdded", mn \ mo)
        \o Each("TeamMemberAdded", en \ eo)
        \o Each("TeamMaintainerRemoved", mo \ mn)
        \o Each("TeamMemberRemoved", eo \ en)

TeamMembersChanges(old, new, t, ordU) ==
    LET mo == old.teams[t].maintainers
        mn == new.teams[t].maintainers
        eo == old.teams[t].members
        en == new.teams[t].members
        Each(kind, S) == [i \in 1..Len(InOrder(S, ordU)) |->
                            DChange(kind, t, InOrder(S, ordU)[i])]
    IN  Each("TeamMaintainerRemoved", mo \ mn)
        \o Each("TeamMemberRemoved", eo \ en)
        \o Each("TeamMaintainerAdded", mn \ mo)
        \o Each("TeamMemberAdded", en \ eo)

Directory_diff(old, new, ordT, ordU, ordF) ==
    LET to == Present(old.teams)
        tn == Present(new.teams)
        removed == InOrder(to \ tn, ordT)
        added == InOrder(tn \ to, ordT)
        both == InOrder(tn \cap to, ordT)
        uo == Present(old.users)
        un == Present(new.users)
        uremoved == InOrder(uo \ un, ordF)
        uadded == InOrder(un \ uo, ordF)
        uupdated == InOrder({f \in un \cap uo : new.users[f] # old.users[f]}, ordF)
    IN  [i \in 1..Len(removed) |-> DChange("TeamRemoved", removed[i], "")]
        \o [i \in 1..Len(added) |-> DTeamAdded(added[i], new.teams[added[i]])]
        \o Concat([i \in 1..Len(both) |-> TeamMembersChanges(old, new, both[i], ordU)])
        \o [i \in 1..Len(uremoved) |-> DChange("UserRemoved", "", uremoved[i])]
        \o [i \in 1..Len(uadded) |-> DChange("UserAdded", "", uadded[i])]
        \o [i \in 1..Len(uupdated) |-> DChange("UserUpdated", "", uupdated[i])]

---------------------------------------------------------------------------
(* State::repositories_diff and State::diff (state.rs).                    *)

unwrap_or_default(v) == IF v = "none" THEN Visibility_default ELSE v

\* A comparison that would default the new visibility only.
VisibilityDiffersDefaulted(old, new, r) ==
    unwrap_or_default(new[r].visibility) # old[r].visibility

\* The visibilities are compared as the Options they are.
VisibilityDiffers(old, new, r) == new[r].visibility # old[r].visibility

\* The changes of one repository present on both sides, in the order the
\* code pushes them.
RepositoryChanges(old, new, r, ordT, ordU) ==
    LET to == Keys(old[r].teams)
        tn == Keys(new[r].teams)
        co == Keys(old[r].collaborators)
        cn == Keys(new[r].collaborators)
        tupd == {t \in tn \cap to : new[r].teams[t] # old[r].teams[t]}
        cupd == {u \in cn \cap co : new[r].collaborators[u] # old[r].collaborators[u]}
        Teams(kind, S, withRole) ==
            [i \in 1..Len(InOrder(S, ordT)) |->
                LET t == InOrder(S, ordT)[i]
                IN  RChange(kind, r, t, IF withRole THEN new[r].teams[t] ELSE NoRole, "none")]
        Users(kind, S, withRole) ==
            [i \in 1..Len(InOrder(S, ordU)) |->
                LET u == InOrder(S, ordU)[i]
                IN  RChange(kind, r, u,
                            IF withRole THEN new[r].collaborators[u] ELSE NoRole, "none")]
    IN  Teams("TeamRemoved", to \ tn, FALSE)
        \o Teams("TeamAdded", tn \ to, TRUE)
        \o Teams("TeamRoleUpdated", tupd, TRUE)
        \o Users("CollaboratorRemoved", co \ cn, FALSE)
        \o Users("CollaboratorAdded", cn \ co, TRUE)
        \o Users("CollaboratorRoleUpdated", cupd, TRUE)
        \o (IF VisibilityDiffers(old, new, r)
            THEN <<RChange("VisibilityUpdated", r, "", NoRole,
                           unwrap_or_default(new[r].visibility))>>
            ELSE <<>>)

RepositoriesAdded(old, new, ordR) ==
    LET added == InOrder(Present(new) \ Present(old), ordR)
    IN  [i \in 1..Len(added) |-> RRepositoryAdded(added[i], new[added[i]])]

\* A diff that would compare every repository of old.
RepositoriesOfOld(old, new) == Present(old)

\* The repositories whose teams, collaborators and visibility are compared:
\* those of new that old has too.
RepositoriesCompared(old, new) == Present(new) \cap Present(old)

\* A diff that would push the changes of each repository last first.
repositories_diff_reversed(old, new, ordR, ordT, ordU) ==
    LET both == InOrder(RepositoriesCompared(old, new), ordR)
        Reversed(s) == [i \in 1..Len(s) |-> s[Len(s) + 1 - i]]
    IN  RepositoriesAdded(old, new, ordR)
        \o Concat([i \in 1..Len(both) |->
                      Reversed(RepositoryChanges(old, new, both[i], ordT, ordU))])

repositories_diff(old, new, ordR, ordT, ordU) ==
    LET both == InOrder(RepositoriesCompared(old, new), ordR)
    IN  RepositoriesAdded(old, new, ordR)
        \o Concat([i \in 1..Len(both) |-> RepositoryChanges(old, new, both[i], ordT, ordU)])

\* State::diff drops the users' changes of the directory diff.
\* A filter that would keep every change of the directory diff.
AnyChange(c) == TRUE

NotUserChange(c) == c.kind \notin UserChangeKinds

State_diff(old, new, ordR, ordT, ordU, ordF) ==
    [directory |-> SelectSeq(Directory_diff(old.directory, new.directory, ordT, ordU, ordF),
                             NotUserChange),
     repositories |-> repositories_diff(old.repositories, new.repositories, ordR, ordT, ordU)]

NoChanges == [directory |-> <<>>, repositories |-> <<>>]

---------------------------------------------------------------------------
(* SpecDiff: the diff applied to pairs of states drawn from DiffStates.    *)

DiffTeamOptions == {NoTeam, Team({"u1"}, {}), Team({"u1"}, {"u2"}),
                    Team({"u1", "u2"}, {}), Team({}, {})}
DiffUserOptions == {NoUser, User("a"), User("b")}
DiffRepoOptions ==
    {NoRepo,
     Repository(NoRoles(TeamNames), NoRoles(UserNames), "none"),
     Repository([t1 |-> Read, t2 |-> NoRole], [u1 |-> NoRole, u2 |-> Read], "public"),
     Repository([t1 |-> Write, t2 |-> Read], [u1 |-> Write, u2 |-> Read], "private"),
     Repository([t1 |-> NoRole, t2 |-> Read], [u1 |-> Read, u2 |-> NoRole], "internal")}

DiffDirectories ==
    {[teams |-> [t1 |-> a, t2 |-> b], users |-> [f1 |-> u]] :
        a \in DiffTeamOptions, b \in {NoTeam, Team({"u1"}, {})}, u \in DiffUserOptions}
DiffRepositories ==
    {[r1 |-> a, r2 |-> b] :
        a \in DiffRepoOptions,
        b \in {NoRepo, Repository(NoRoles(TeamNames), NoRoles(UserNames), "public")}}

DiffDefaultDirectory ==
    [teams |-> [t1 |-> Team({"u1"}, {"u2"}), t2 |-> NoTeam], users |-> [f1 |-> User("a")]]
DiffDefaultRepositories ==
    [r1 |-> Repository([t1 |-> Read, t2 |-> NoRole], [u1 |-> NoRole, u2 |-> Read], "public"),
     r2 |-> NoRepo]

DiffStates ==
    {[directory |-> d, repositories |-> DiffDefaultRepositories] : d \in DiffDirectories}
    \cup {[directory |-> DiffDefaultDirectory, repositories |-> r] : r \in DiffRepositories}

DiffIdle ==
    /\ diffPc = "off"
    /\ diffOld = EmptyState
    /\ diffNew = EmptyState
    /\ diffOut = [state |-> NoChanges, directory |-> <<>>]

DiffInit ==
    /\ diffPc = "input"
    /\ diffOld \in DiffStates
    /\ diffNew \in DiffStates
    /\ diffOut = [state |-> NoChanges, directory |-> <<>>]

\* old.diff(&new) of State and of Directory, for one iteration order of the
\* hash maps.
DiffCompute ==
    /\ diffPc = "input"
    /\ \E ordR \in Perms(RepoNames), ordT \in Perms(TeamNames),
          ordU \in Perms(UserNames), ordF \in Perms(FullNames) :
            diffOut' = [state |-> State_diff(diffOld, diffNew, ordR, ordT, ordU, ordF),
                        directory |-> Directory_diff(diffOld.directory, diffNew.directory,
                                                     ordT, ordU, ordF)]
    /\ diffPc' = "done"
    /\ UNCHANGED <<diffOld, diffNew>>
    /\ UNCHANGED outsideDiff

---------------------------------------------------------------------------
(* The platform behind the Svc trait (service.rs): the teams and the       *)
(* repositories of one GitHub organization.  A platform repository also    *)
(* has an archived flag and its pending invitations; a user is a direct    *)
(* collaborator or has a pending invitation, never both.                   *)

NoSvcRepo == [present |-> FALSE, archived |-> FALSE, teams |-> NoRoles(TeamNames),
              collaborators |-> NoRoles(UserNames), invitations |-> NoRoles(UserNames),
              visibility |-> "public"]
SvcRepo(archived, ts, cs, is, v) ==
    [present |-> TRUE, archived |-> archived, teams |-> ts, collaborators |-> cs,
     invitations |-> is, visibility |-> v]

\* GHSA_TEMP_FORK: the names of temporary security advisory forks.  None of
\* RepoNames matches the expression.
GHSA_TEMP_FORK(name) == name \in {"r1-ghsa-2345-6789-cfgh"}

\* The result of a gateway call: the platform after it, whether it returned
\* Ok, and whether its failure is one the platform chose (injected) rather
\* than one the state of the platform forces.
Outcome(T, R, ok, injected) == [teams |-> T, repos |-> R, ok |-> ok, injected |-> injected]

\* A call that either takes effect or fails leaving the platform as it was.
Call(T, R, pre, T2, R2) ==
    IF pre THEN {Outcome(T2, R2, TRUE, FALSE), Outcome(T, R, FALSE, TRUE)}
    ELSE {Outcome(T, R, FALSE, FALSE)}

Mutable(R, r) == R[r].present /\ ~R[r].archived

\* A platform that would keep the repository links of a deleted team.
remove_team_keeping_links(T, R, t) ==
    Call(T, R, T[t].present, [T EXCEPT ![t] = NoTeam], R)

\* SvcApi::remove_team: the platform drops the team's repository links too.
remove_team(T, R, t) ==
    Call(T, R, T[t].present,
         [T EXCEPT ![t] = NoTeam],
         [r \in RepoNames |-> [R[r] EXCEPT !.teams[t] = NoRole]])

\* SvcApi::add_team_maintainer and add_team_member: the membership endpoint
\* sets the role of the user in the team.
add_team_maintainer(T, R, t, u) ==
    Call(T, R, T[t].present,
         [T EXCEPT ![t].maintainers = @ \cup {u}, ![t].members = @ \ {u}], R)

add_team_member(T, R, t, u) ==
    Call(T, R, T[t].present,
         [T EXCEPT ![t].members = @ \cup {u}, ![t].maintainers = @ \ {u}], R)

\* SvcApi::remove_team_maintainer and remove_team_member: the same endpoint,
\* which removes the membership.
remove_team_membership(T, R, t, u) ==
    Call(T, R, T[t].present,
         [T EXCEPT ![t].maintainers = @ \ {u}, ![t].members = @ \ {u}], R)

\* SvcApi::add_team: create the team with its maintainers, then add the
\* members one by one in the order of the list; the first failure returns.
add_team(T, R, t, maintainers, members) ==
    LET ms == InOrder(members, SortedUsers)
        Created(k) == [T EXCEPT ![t] = Team(maintainers, {ms[i] : i \in 1..k})]
    IN  IF T[t].present THEN {Outcome(T, R, FALSE, FALSE)}
        ELSE {Outcome(T, R, FALSE, TRUE)}
             \cup {Outcome(Created(k), R, FALSE, TRUE) : k \in 0..(Len(ms) - 1)}
             \cup {Outcome(Created(Len(ms)), R, TRUE, FALSE)}

\* SvcApi::add_repository_team and update_repository_team_role.
add_repository_team(T, R, r, t, role) ==
    Call(T, R, Mutable(R, r) /\ T[t].present, T, [R EXCEPT ![r].teams[t] = role])

\* SvcApi::remove_repository_team.
remove_repository_team(T, R, r, t) ==
    Call(T, R, Mutable(R, r) /\ T[t].present, T, [R EXCEPT ![r].teams[t] = NoRole])

\* SvcApi::add_repository_collaborator: the platform adds the user directly
\* or creates a pending invitation.
add_repository_collaborator(T, R, r, u, role) ==
    IF Mutable(R, r)
    THEN {Outcome(T, [R EXCEPT ![r].collaborators[u] = role, ![r].invitations[u] = NoRole],
                  TRUE, FALSE),
          Outcome(T, [R EXCEPT ![r].invitations[u] = role, ![r].collaborators[u] = NoRole],
                  TRUE, FALSE),
          Outcome(T, R, FALSE, TRUE)}
    ELSE {Outcome(T, R, FALSE, FALSE)}

\* SvcApi::update_repository_collaborator_role.
update_repository_collaborator_role(T, R, r, u, role) ==
    Call(T, R, Mutable(R, r) /\ R[r].collaborators[u] # NoRole,
         T, [R EXCEPT ![r].collaborators[u] = role])

\* SvcApi::remove_repository_collaborator.
remove_repository_collaborator(T, R, r, u) ==
    Call(T, R, Mutable(R, r), T, [R EXCEPT ![r].collaborators[u] = NoRole])

\* SvcApi::remove_repository_invitation and update_repository_invitation;
\* an invitation is identified by its invitee.
remove_repository_invitation(T, R, r, u) ==
    Call(T, R, Mutable(R, r) /\ R[r].invitations[u] # NoRole,
         T, [R EXCEPT ![r].invitations[u] = NoRole])

update_repository_invitation(T, R, r, u, role) ==
    Call(T, R, Mutable(R, r) /\ R[r].invitations[u] # NoRole,
         T, [R EXCEPT ![r].invitations[u] = role])

\* SvcApi::update_repository_visibility.
update_repository_visibility(T, R, r, v) ==
    Call(T, R, Mutable(R, r), T, [R EXCEPT ![r].visibility = v])

\* SvcApi::add_repository: create the repository, then add its teams, then
\* its collaborators, in the iteration order of the maps; the first failure
\* returns and leaves what was added so far.
add_repository(T, R, r, teams, collaborators, v) ==
    LET ts == Keys(teams)
        cs == Keys(collaborators)
        linkable == {t \in ts : T[t].present}
        Created(TS, direct, invited) ==
            [R EXCEPT ![r] = SvcRepo(FALSE,
                [t \in TeamNames |-> IF t \in TS THEN teams[t] ELSE NoRole],
                [u \in UserNames |-> IF u \in direct THEN collaborators[u] ELSE NoRole],
                [u \in UserNames |-> IF u \in invited THEN collaborators[u] ELSE NoRole],
                unwrap_or_default(v))]
        Splits(CS) == {<<d, CS \ d>> : d \in SUBSET CS}
    IN  IF R[r].present THEN {Outcome(T, R, FALSE, FALSE)}
        ELSE {Outcome(T, R, FALSE, TRUE)}
             \cup {Outcome(T, Created(TS, {}, {}), FALSE, linkable = ts) :
                      TS \in (SUBSET linkable) \ {ts}}
             \cup (IF linkable = ts
                   THEN {Outcome(T, Created(ts, sp[1], sp[2]), FALSE, TRUE) :
                            sp \in UNION {Splits(CS) : CS \in (SUBSET cs) \ {cs}}}
                        \cup {Outcome(T, Created(ts, sp[1], sp[2]), TRUE, FALSE) :
                                 sp \in Splits(cs)}
                   ELSE {})

---------------------------------------------------------------------------
(* State::new_from_service, State::new_from_config and State::validate.    *)

\* The collaborators of a repository as the actual state has them: the
\* direct collaborators without the org admins, then every pending
\* invitation inserted under its invitee.
ServiceCollaborators(repo, invitations, admins) ==
    [u \in UserNames |->
        IF invitations[u] # NoRole THEN invitations[u]
        ELSE IF u \in admins THEN NoRole
        ELSE repo.collaborators[u]]

\* State::new_from_service; invs are the invitations list_repository_invitations
\* returned for each repository.
new_from_service(T, R, admins, invs) ==
    [directory |-> [teams |-> T, users |-> [f \in FullNames |-> NoUser]],
     repositories |->
        [r \in RepoNames |->
            IF R[r].present /\ ~R[r].archived /\ ~GHSA_TEMP_FORK(r)
            THEN Repository(R[r].teams, ServiceCollaborators(R[r], invs[r], admins),
                            R[r].visibility)
            ELSE NoRepo]]

\* sheriff::Cfg::validate (directory/legacy.rs) on teams whose names are
\* valid and unique: at least one maintainer, nobody maintainer and member.
sheriff_validate(teams) ==
    \A t \in Present(teams) :
        /\ teams[t].maintainers # {}
        /\ teams[t].maintainers \cap teams[t].members = {}

\* A lookup that would report no repository as archived.
NeverArchived(R, name) == FALSE

\* is_repository_archived: what list_repositories reports for the name.
is_repository_archived(R, name) == R[name].present /\ R[name].archived

\* A folding that leaves the team as the configuration has it.
TeamAsConfigured(team, admins) == team

\* The team's members that are org admins become maintainers.
FoldOrgAdmins(team, admins) ==
    IF team.present
    THEN Team(team.maintainers \cup (team.members \cap admins), team.members \ admins)
    ELSE team

\* Default visibility when none is provided.
DefaultVisibility(v) == IF v = "none" THEN Visibility_default ELSE v

\* Organization admins are removed from the collaborators.
StripOrgAdmins(collaborators, admins) ==
    [u \in UserNames |-> IF u \in admins THEN NoRole ELSE collaborators[u]]

\* The users of the people file (Directory::new_from_config); the directory
\* new_from_service builds has none.
CfgUsers == [f \in FullNames |-> User("a")]

\* The state new_from_config builds before validating it.
DesiredState(ct, cr, R, admins) ==
    [directory |-> [teams |-> [t \in TeamNames |-> FoldOrgAdmins(ct[t], admins)],
                    users |-> CfgUsers],
     repositories |->
        [r \in RepoNames |->
            IF cr[r].present /\ ~is_repository_archived(R, r)
            THEN Repository(cr[r].teams, StripOrgAdmins(cr[r].collaborators, admins),
                            DefaultVisibility(cr[r].visibility))
            ELSE NoRepo]]

\* get_highest_team_role: the highest role among the teams of the repository
\* that have the user; NoRole when there is none.
get_highest_team_role(state, r, u) ==
    LET rs == {state.repositories[r].teams[t] :
                  t \in {t \in Keys(state.repositories[r].teams) :
                            /\ state.directory.teams[t].present
                            /\ u \in state.directory.teams[t].maintainers
                                     \cup state.directory.teams[t].members}}
    IN  IF rs = {} THEN NoRole ELSE CHOOSE x \in rs : \A y \in rs : y <= x

\* State::validate: TRUE when no error is pushed.
State_validate(state, members) ==
    /\ \A t \in Present(state.directory.teams) :
          state.directory.teams[t].maintainers \subseteq members
    /\ \A r \in Present(state.repositories) :
          /\ \A t \in Keys(state.repositories[r].teams) : state.directory.teams[t].present
          /\ \A u \in Keys(state.repositories[r].collaborators) :
                ~(get_highest_team_role(state, r, u) > state.repositories[r].collaborators[u])

\* new_from_config returns Ok.
ConfigValid(ct, cr, R, admins, members) ==
    /\ sheriff_validate(ct)
    /\ State_validate(DesiredState(ct, cr, R, admins), members)

---------------------------------------------------------------------------
(* The errors of the validation, as the MultiError collects them.          *)

\* An error pushed on a MultiError: its kind and what its message names.
ValidationError(kind, team, repo, user, role) ==
    [kind |-> kind, team |-> team, repo |-> repo, user |-> user, role |-> role]

\* sheriff::Cfg::validate (directory/legacy.rs): the errors it pushes, team
\* by team in the order of the file (here the order of the names), the
\* maintainers in their sorted order.
sheriff_validate_errors(teams) ==
    LET ts == InOrder(Present(teams), SortedTeams)
        Both(t) == InOrder(teams[t].maintainers \cap teams[t].members, SortedUsers)
        OfTeam(t) ==
            (IF teams[t].maintainers = {}
             THEN <<ValidationError("no_maintainer", t, "", "", NoRole)>>
             ELSE <<>>)
            \o [i \in 1..Len(Both(t)) |->
                  ValidationError("maintainer_and_member", t, "", Both(t)[i], NoRole)]
    IN  Concat([i \in 1..Len(ts) |-> OfTeam(ts[i])])

\* The team get_highest_team_role returns with the role: the first one, in
\* the iteration order of the repository's teams, that gives the highest
\* role ("" when no team of the repository has the user).
highest_team(state, r, u, ordT) ==
    LET cand == InOrder({t \in Keys(state.repositories[r].teams) :
                            /\ state.directory.teams[t].present
                            /\ u \in state.directory.teams[t].maintainers
                                     \cup state.directory.teams[t].members
                            /\ state.repositories[r].teams[t]
                                   = get_highest_team_role(state, r, u)}, ordT)
    IN  IF cand = <<>> THEN "" ELSE cand[1]

\* A comparison that would also refuse the role the team gives.
RoleNotHigher(highest, role) == highest >= role

\* &highest_team_role > user_role
RoleTooLow(highest, role) == highest > role

\* State::validate: the errors it pushes.  The teams and the repositories
\* are vectors; the teams and the collaborators of a repository are hash
\* maps, iterated in the orders ordT and ordU.
State_validate_errors(state, members, ordT, ordU) ==
    LET ts == InOrder(Present(state.directory.teams), SortedTeams)
        rs == InOrder(Present(state.repositories), SortedRepos)
        NotMembers(t) == InOrder(state.directory.teams[t].maintainers \ members, SortedUsers)
        Missing(r) == InOrder({t \in Keys(state.repositories[r].teams) :
                                  ~state.directory.teams[t].present}, ordT)
        Low(r) == InOrder({u \in Keys(state.repositories[r].collaborators) :
                              RoleTooLow(get_highest_team_role(state, r, u),
                                         state.repositories[r].collaborators[u])}, ordU)
    IN  Concat([i \in 1..Len(ts) |->
                  [j \in 1..Len(NotMembers(ts[i])) |->
                      ValidationError("maintainer_not_org_member", ts[i], "",
                                      NotMembers(ts[i])[j], NoRole)]])
        \o Concat([i \in 1..Len(rs) |->
                  [j \in 1..Len(Missing(rs[i])) |->
                      ValidationError("team_not_in_directory", Missing(rs[i])[j], rs[i],
                                      "", NoRole)]
                  \o [j \in 1..Len(Low(rs[i])) |->
                      ValidationError("collaborator_role",
                                      highest_team(state, rs[i], Low(rs[i])[j], ordT), rs[i],
                                      Low(rs[i])[j],
                                      get_highest_team_role(state, rs[i], Low(rs[i])[j]))]])

\* State::new_from_config: Ok(state), or the aggregate error of the first
\* stage that fails (the directory configuration, then the state).  The names
\* of the model are all valid and unique, so sheriff::Cfg::validate of the
\* repositories (services/github/legacy.rs) pushes nothing.
new_from_config(ct, cr, R, admins, members, ordT, ordU) ==
    LET derr == sheriff_validate_errors(ct)
        state == DesiredState(ct, cr, R, admins)
        serr == State_validate_errors(state, members, ordT, ordU)
    IN  IF derr # <<>>
        THEN [ok |-> FALSE, context |-> "invalid directory configuration",
              errors |-> derr, state |-> EmptyState]
        ELSE IF serr # <<>>
        THEN [ok |-> FALSE, context |-> "invalid github service configuration",
              errors |-> serr, state |-> EmptyState]
        ELSE [ok |-> TRUE, context |-> "", errors |-> <<>>, state |-> state]

NoResult == [ok |-> FALSE, context |-> "", errors |-> <<>>, state |-> EmptyState]

---------------------------------------------------------------------------
(* SpecValidate: new_from_config evaluated twice on the same configuration *)
(* and the same snapshot of the platform.                                  *)

ValTeamsOptions ==
    {[t1 |-> a, t2 |-> b] :
        a \in {NoTeam, Team({"u1"}, {}), Team({"u1"}, {"u2"}), Team({}, {"u2"}),
               Team({"u1", "u2"}, {"u2"}), Team({}, {"u1", "u2"})},
        b \in {NoTeam, Team({"u1"}, {}), Team({"u2"}, {"u1"})}}

ValRepoOptions ==
    {NoRepo,
     Repository([t1 |-> Write, t2 |-> Read], [u1 |-> NoRole, u2 |-> Read], "none"),
     Repository([t1 |-> Write, t2 |-> Read], [u1 |-> NoRole, u2 |-> Write], "none"),
     Repository([t1 |-> Write, t2 |-> Write], [u1 |-> Triage, u2 |-> Read], "private"),
     Repository([t1 |-> Read, t2 |-> NoRole], [u1 |-> NoRole, u2 |-> Admin], "public")}
ValReposOptions ==
    {[r1 |-> a, r2 |-> b] :
        a \in ValRepoOptions,
        b \in {NoRepo, Repository([t1 |-> NoRole, t2 |-> Maintain],
                                  [u1 |-> Read, u2 |-> NoRole], "none")}}

ValSvcReposOptions ==
    {[r \in RepoNames |-> NoSvcRepo],
     [r1 |-> SvcRepo(TRUE, NoRoles(TeamNames), NoRoles(UserNames), NoRoles(UserNames),
                     "public"),
      r2 |-> NoSvcRepo]}

ValIdle ==
    /\ valPc = "off"
    /\ valTeams = [t \in TeamNames |-> NoTeam]
    /\ valRepos = [r \in RepoNames |-> NoRepo]
    /\ valSvcRepos = [r \in RepoNames |-> NoSvcRepo]
    /\ valAdmins = {}
    /\ valMembers = {}
    /\ valOut = NoResult
    /\ valOut2 = NoResult

ValInit ==
    /\ valPc = "input"
    /\ valTeams \in ValTeamsOptions
    /\ valRepos \in ValReposOptions
    /\ valSvcRepos \in ValSvcReposOptions
    /\ valAdmins \in {{}, {"u2"}}
    /\ valMembers \in {UserNames, {"u1"}}
    /\ valAdmins \subseteq valMembers
    /\ valOut = NoResult
    /\ valOut2 = NoResult

\* The configuration is fetched, parsed and validated.
Validate ==
    /\ valPc = "input"
    /\ \E ordT \in Perms(TeamNames), ordU \in Perms(UserNames) :
          valOut' = new_from_config(valTeams, valRepos, valSvcRepos, valAdmins, valMembers,
                                    ordT, ordU)
    /\ valPc' = "validated"
    /\ UNCHANGED <<valTeams, valRepos, valSvcRepos, valAdmins, valMembers, valOut2>>
    /\ UNCHANGED outsideValidate

\* The same configuration is fetched, parsed and validated again: the hash
\* maps are new ones.
ValidateAgain ==
    /\ valPc = "validated"
    /\ \E ordT \in Perms(TeamNames), ordU \in Perms(UserNames) :
          valOut2' = new_from_config(valTeams, valRepos, valSvcRepos, valAdmins, valMembers,
                                     ordT, ordU)
    /\ valPc' = "revalidated"
    /\ UNCHANGED <<valTeams, valRepos, valSvcRepos, valAdmins, valMembers, valOut>>
    /\ UNCHANGED outsideValidate

---------------------------------------------------------------------------
(* Handler::reconcile (services/github/mod.rs), one gateway call per step. *)

\* The number of gateway calls of one run that the platform may fail.
MaxFailures == 1

NoCache == [r \in RepoNames |-> [valid |-> FALSE, invitations |-> NoRoles(UserNames)]]

LiveInvitations(R) == [r \in RepoNames |-> R[r].invitations]

ChangeApplied(type, change, ok) == [type |-> type, change |-> change, error |-> ~ok]
GatewayCall(op, repo, name, ok) == [op |-> op, repo |-> repo, name |-> name, ok |-> ok]

\* The gateway call of a directory change, and the outcomes it can have.
DirectoryOp(c) ==
    CASE c.kind = "TeamAdded" -> "add_team"
      [] c.kind = "TeamRemoved" -> "remove_team"
      [] c.kind = "TeamMaintainerAdded" -> "add_team_maintainer"
      [] c.kind = "TeamMaintainerRemoved" -> "remove_team_maintainer"
      [] c.kind = "TeamMemberAdded" -> "add_team_member"
      [] c.kind = "TeamMemberRemoved" -> "remove_team_member"

DirectoryCall(T, R, c) ==
    CASE c.kind = "TeamAdded" -> add_team(T, R, c.team, c.maintainers, c.members)
      [] c.kind = "TeamRemoved" -> remove_team(T, R, c.team)
      [] c.kind = "TeamMaintainerAdded" -> add_team_maintainer(T, R, c.team, c.user)
      [] c.kind = "TeamMaintainerRemoved" -> remove_team_membership(T, R, c.team, c.user)
      [] c.kind = "TeamMemberAdded" -> add_team_member(T, R, c.team, c.user)
      [] c.kind = "TeamMemberRemoved" -> remove_team_membership(T, R, c.team, c.user)

\* The repository changes applied with a single gateway call.
DirectKinds == {"RepositoryAdded", "TeamAdded", "TeamRemoved", "TeamRoleUpdated",
                "CollaboratorAdded", "VisibilityUpdated"}
\* The repository changes that look for a pending invitation first.
InvitationKinds == {"CollaboratorRemoved", "CollaboratorRoleUpdated"}

RepositoryOp(c) ==
    CASE c.kind = "RepositoryAdded" -> "add_repository"
      [] c.kind = "TeamAdded" -> "add_repository_team"
      [] c.kind = "TeamRemoved" -> "remove_repository_team"
      [] c.kind = "TeamRoleUpdated" -> "update_repository_team_role"
      [] c.kind = "CollaboratorAdded" -> "add_repository_collaborator"
      [] c.kind = "VisibilityUpdated" -> "update_repository_visibility"

RepositoryCall(T, R, c) ==
    CASE c.kind = "RepositoryAdded" ->
            add_repository(T, R, c.repo, c.teams, c.collaborators, c.visibility)
      [] c.kind = "TeamAdded" -> add_repository_team(T, R, c.repo, c.name, c.role)
      [] c.kind = "TeamRemoved" -> remove_repository_team(T, R, c.repo, c.name)
      [] c.kind = "TeamRoleUpdated" -> add_repository_team(T, R, c.repo, c.name, c.role)
      [] c.kind = "CollaboratorAdded" ->
            add_repository_collaborator(T, R, c.repo, c.name, c.role)
      [] c.kind = "VisibilityUpdated" ->
            update_repository_visibility(T, R, c.repo, c.visibility)

\* The collaborator operation whatever the invitations are.
CollaboratorOp(c, invited) ==
    IF c.kind = "CollaboratorRemoved"
    THEN "remove_repository_collaborator"
    ELSE "update_repository_collaborator_role"

InvitationOp(c, invited) ==
    CASE c.kind = "CollaboratorRemoved" /\ invited -> "remove_repository_invitation"
      [] c.kind = "CollaboratorRemoved" /\ ~invited -> "remove_repository_collaborator"
      [] c.kind = "CollaboratorRoleUpdated" /\ invited -> "update_repository_invitation"
      [] c.kind = "CollaboratorRoleUpdated" /\ ~invited -> "update_repository_collaborator_role"

InvitationCall(T, R, c, invited) ==
    CASE c.kind = "CollaboratorRemoved" /\ invited ->
            remove_repository_invitation(T, R, c.repo, c.name)
      [] c.kind = "CollaboratorRemoved" /\ ~invited ->
            remove_repository_collaborator(T, R, c.repo, c.name)
      [] c.kind = "CollaboratorRoleUpdated" /\ invited ->
            update_repository_invitation(T, R, c.repo, c.name, c.role)
      [] c.kind = "CollaboratorRoleUpdated" /\ ~invited ->
            update_repository_collaborator_role(T, R, c.repo, c.name, c.role)

\* A scan that would never find the team.
NeverJustRemoved(applied, t) == FALSE

\* The scan of changes_applied before a RepositoryChange::TeamRemoved: a
\* DirectoryChange::TeamRemoved of the same team is among the entries.
TeamJustRemoved(applied, t) ==
    \E i \in DOMAIN applied :
        /\ applied[i].type = "directory"
        /\ applied[i].change.kind = "TeamRemoved"
        /\ applied[i].change.team = t

\* Two loops that would run side by side.
LoopsInterleave == TRUE

\* The loop over changes.repositories starts when the loop over
\* changes.directory has ended.
DirectoryChangesApplied == dirPending = <<>>

AfterChange(d, r) == IF d = <<>> /\ r = <<>> THEN "done" ELSE "apply"

\* The two states are built and diffed.  The invitations cache is empty when
\* the run starts, so new_from_service lists the invitations on the platform
\* and the lists are cached.
ReconcileBuild ==
    /\ recPc = "start"
    /\ ConfigValid(cfgTeams, cfgRepos, svcRepos, orgAdmins, orgMembers)
    /\ LET actual == new_from_service(svcTeams, svcRepos, orgAdmins, LiveInvitations(svcRepos))
           desired == DesiredState(cfgTeams, cfgRepos, svcRepos, orgAdmins)
       IN  /\ actual_state' = actual
           /\ desired_state' = desired
           /\ \E ordR \in Perms(RepoNames), ordT \in Perms(TeamNames),
                 ordU \in Perms(UserNames), ordF \in Perms(FullNames) :
                 LET d == State_diff(actual, desired, ordR, ordT, ordU, ordF)
                 IN  /\ changes' = d
                     /\ dirPending' = d.directory
                     /\ repoPending' = d.repositories
                     /\ recPc' = AfterChange(d.directory, d.repositories)
    /\ invCache' = [r \in RepoNames |->
                      IF actual_state'.repositories[r].present
                      THEN [valid |-> TRUE, invitations |-> svcRepos[r].invitations]
                      ELSE invCache[r]]
    /\ UNCHANGED <<platformVars, changes_applied, skipped, gwTrace, failures>>
    /\ UNCHANGED outsideReconcile

\* An error that would surface only once a change has been applied.
ReconcileFailsAfterApplying ==
    /\ recPc = "apply"
    /\ gwTrace # <<>>
    /\ recPc' = "failed"
    /\ UNCHANGED <<platformVars, actual_state, desired_state, changes, dirPending,
                   repoPending, changes_applied, skipped, gwTrace, invCache, failures>>
    /\ UNCHANGED outsideReconcile

\* Building one of the two states fails (a fetch fails, or the configuration
\* is not valid): reconcile returns the error.
ReconcileBuildFails ==
    /\ recPc = "start"
    /\ recPc' = "failed"
    /\ UNCHANGED <<platformVars, actual_state, desired_state, changes, dirPending,
                   repoPending, changes_applied, skipped, gwTrace, invCache, failures>>
    /\ UNCHANGED outsideReconcile

ApplyDirectoryChange ==
    /\ recPc = "apply"
    /\ dirPending # <<>>
    /\ LET c == Head(dirPending)
       IN  \E o \in DirectoryCall(svcTeams, svcRepos, c) :
              /\ o.injected => failures < MaxFailures
              /\ svcTeams' = o.teams
              /\ svcRepos' = o.repos
              /\ failures' = IF o.injected THEN failures + 1 ELSE failures
              /\ changes_applied' = Append(changes_applied, ChangeApplied("directory", c, o.ok))
              /\ gwTrace' = Append(gwTrace, GatewayCall(DirectoryOp(c), "", c.team, o.ok))
    /\ dirPending' = Tail(dirPending)
    /\ recPc' = AfterChange(dirPending', repoPending)
    /\ UNCHANGED <<orgAdmins, orgMembers, cfgTeams, cfgRepos, actual_state, desired_state,
                   changes, repoPending, skipped, invCache>>
    /\ UNCHANGED outsideReconcile

ApplyRepositoryChange ==
    /\ recPc = "apply"
    /\ DirectoryChangesApplied
    /\ repoPending # <<>>
    /\ LET c == Head(repoPending)
       IN  /\ c.kind \in DirectKinds
           /\ c.kind = "TeamRemoved" => ~TeamJustRemoved(changes_applied, c.name)
           /\ \E o \in RepositoryCall(svcTeams, svcRepos, c) :
                 /\ o.injected => failures < MaxFailures
                 /\ svcTeams' = o.teams
                 /\ svcRepos' = o.repos
                 /\ failures' = IF o.injected THEN failures + 1 ELSE failures
                 /\ changes_applied' =
                        Append(changes_applied, ChangeApplied("repository", c, o.ok))
                 /\ gwTrace' = Append(gwTrace, GatewayCall(RepositoryOp(c), c.repo, c.name, o.ok))
    /\ repoPending' = Tail(repoPending)
    /\ recPc' = AfterChange(dirPending, repoPending')
    /\ UNCHANGED <<orgAdmins, orgMembers, cfgTeams, cfgRepos, actual_state, desired_state,
                   changes, dirPending, skipped, invCache>>
    /\ UNCHANGED outsideReconcile

\* continue 'changes_repositories: the change is dropped, nothing is recorded.
SkipRepositoryTeamRemoved ==
    /\ recPc = "apply"
    /\ DirectoryChangesApplied
    /\ repoPending # <<>>
    /\ Head(repoPending).kind = "TeamRemoved"
    /\ TeamJustRemoved(changes_applied, Head(repoPending).name)
    /\ skipped' = Append(skipped, Head(repoPending))
    /\ repoPending' = Tail(repoPending)
    /\ recPc' = AfterChange(dirPending, repoPending')
    /\ UNCHANGED <<platformVars, actual_state, desired_state, changes, dirPending,
                   changes_applied, gwTrace, invCache, failures>>
    /\ UNCHANGED outsideReconcile

\* get_repository_invitation returns Ok: the list comes from the cache while
\* its entry lives, from the platform otherwise (and is cached).
ApplyCollaboratorChange ==
    /\ recPc = "apply"
    /\ DirectoryChangesApplied
    /\ repoPending # <<>>
    /\ LET c == Head(repoPending)
       IN  /\ c.kind \in InvitationKinds
           /\ \E lst \in {svcRepos[c.repo].invitations}
                         \cup (IF invCache[c.repo].valid
                               THEN {invCache[c.repo].invitations} ELSE {}) :
                 LET invited == lst[c.name] # NoRole
                 IN  \E o \in InvitationCall(svcTeams, svcRepos, c, invited) :
                        /\ o.injected => failures < MaxFailures
                        /\ svcTeams' = o.teams
                        /\ svcRepos' = o.repos
                        /\ failures' = IF o.injected THEN failures + 1 ELSE failures
                        /\ changes_applied' =
                               Append(changes_applied, ChangeApplied("repository", c, o.ok))
                        /\ gwTrace' = Append(gwTrace,
                               GatewayCall(InvitationOp(c, invited), c.repo, c.name, o.ok))
                        /\ invCache' = [invCache EXCEPT ![c.repo] =
                                           [valid |-> TRUE, invitations |-> lst]]
    /\ repoPending' = Tail(repoPending)
    /\ recPc' = AfterChange(dirPending, repoPending')
    /\ UNCHANGED <<orgAdmins, orgMembers, cfgTeams, cfgRepos, actual_state, desired_state,
                   changes, dirPending, skipped>>
    /\ UNCHANGED outsideReconcile

\* get_repository_invitation returns Err (list_repository_invitations fails:
\* the client cannot be set up, or the cache entry has expired and the
\* request fails): the ? operator returns it from reconcile, and the entries
\* of changes_applied are dropped with it.
AbortOnInvitationsError ==
    /\ recPc = "apply"
    /\ DirectoryChangesApplied
    /\ repoPending # <<>>
    /\ Head(repoPending).kind \in InvitationKinds
    /\ failures < MaxFailures
    /\ failures' = failures + 1
    /\ recPc' = "aborted"
    /\ UNCHANGED <<platformVars, actual_state, desired_state, changes, dirPending,
                   repoPending, changes_applied, skipped, gwTrace, invCache>>
    /\ UNCHANGED outsideReconcile

---------------------------------------------------------------------------
(* SpecReconcile: one run of reconcile from every platform and every       *)
(* configuration drawn below.                                              *)

TeamA == Team({"u1"}, {})
TeamB == Team({"u1"}, {"u2"})
TeamC == Team({"u1", "u2"}, {})

SvcTeamsOptions ==
    {[t1 |-> a, t2 |-> b] : a \in {NoTeam, TeamA, TeamB, TeamC}, b \in {NoTeam, TeamA}}
CfgTeamsOptions ==
    {[t1 |-> a, t2 |-> b] : a \in {NoTeam, TeamA, TeamB, TeamC}, b \in {NoTeam, TeamA}}

SvcRepoOptions ==
    {NoSvcRepo,
     SvcRepo(FALSE, [t1 |-> Read, t2 |-> NoRole], [u1 |-> NoRole, u2 |-> Read],
             NoRoles(UserNames), "public"),
     SvcRepo(FALSE, [t1 |-> Write, t2 |-> Read], NoRoles(UserNames),
             [u1 |-> NoRole, u2 |-> Read], "private"),
     SvcRepo(TRUE, [t1 |-> Read, t2 |-> NoRole], [u1 |-> NoRole, u2 |-> Read],
             NoRoles(UserNames), "public")}
SvcReposOptions ==
    {[r1 |-> a, r2 |-> b] :
        a \in SvcRepoOptions,
        b \in {NoSvcRepo, SvcRepo(FALSE, [t1 |-> Read, t2 |-> NoRole], NoRoles(UserNames),
                                  NoRoles(UserNames), "public")}}

CfgRepoOptions ==
    {NoRepo,
     Repository(NoRoles(TeamNames), NoRoles(UserNames), "none"),
     Repository([t1 |-> Write, t2 |-> NoRole], [u1 |-> NoRole, u2 |-> Write], "none"),
     Repository([t1 |-> NoRole, t2 |-> Read], NoRoles(UserNames), "private")}
CfgReposOptions ==
    {[r1 |-> a, r2 |-> b] :
        a \in CfgRepoOptions,
        b \in {NoRepo, Repository(NoRoles(TeamNames), NoRoles(UserNames), "none")}}

\* What the platform guarantees: a repository is linked to existing teams
\* only, a user is not both collaborator and invitee, an org admin in a team
\* is a maintainer of it, and the org admins are org members.
PlatformOk(T, R, admins, members) ==
    /\ \A r \in RepoNames : \A t \in Keys(R[r].teams) : T[t].present
    /\ \A r \in RepoNames : Keys(R[r].collaborators) \cap Keys(R[r].invitations) = {}
    /\ \A t \in TeamNames : T[t].members \cap admins = {}
    /\ admins \subseteq members

RecIdle ==
    /\ svcTeams = [t \in TeamNames |-> NoTeam]
    /\ svcRepos = [r \in RepoNames |-> NoSvcRepo]
    /\ orgAdmins = {}
    /\ orgMembers = {}
    /\ cfgTeams = [t \in TeamNames |-> NoTeam]
    /\ cfgRepos = [r \in RepoNames |-> NoRepo]
    /\ recPc = "off"
    /\ actual_state = EmptyState
    /\ desired_state = EmptyState
    /\ changes = NoChanges
    /\ dirPending = <<>>
    /\ repoPending = <<>>
    /\ changes_applied = <<>>
    /\ skipped = <<>>
    /\ gwTrace = <<>>
    /\ invCache = NoCache
    /\ failures = 0

RecInit ==
    /\ svcTeams \in SvcTeamsOptions
    /\ svcRepos \in SvcReposOptions
    /\ orgAdmins \in {{}, {"u2"}}
    /\ orgMembers = UserNames
    /\ PlatformOk(svcTeams, svcRepos, orgAdmins, orgMembers)
    /\ cfgTeams \in CfgTeamsOptions
    /\ cfgRepos \in CfgReposOptions
    /\ recPc = "start"
    /\ actual_state = EmptyState
    /\ desired_state = EmptyState
    /\ changes = NoChanges
    /\ dirPending = <<>>
    /\ repoPending = <<>>
    /\ changes_applied = <<>>
    /\ skipped = <<>>
    /\ gwTrace = <<>>
    /\ invCache = NoCache
    /\ failures = 0

---------------------------------------------------------------------------
(* The jobs engine (clowarden-server/src/jobs.rs): the central jobs        *)
(* channel, the router task, one worker task per organization and the      *)
(* scheduler.  A job is identified by the position at which it was sent on *)
(* the central channel.                                                    *)

\* The registered organizations, in the order of the configuration.
Orgs == <<"o1", "o2">>
OrgNames == Range(Orgs)
JobKinds == {"Reconcile", "Validate"}

\* The number of jobs sent in one run.
MaxJobs == 3

\* Job::Reconcile / Job::Validate; from_pr tells a job created from a pull
\* request from a periodic one.
Job(id, org, kind, from_pr) == [id |-> id, org |-> org, kind |-> kind, from_pr |-> from_pr]
org_name(job) == job.org

\* A channel that hands over the most recent message first.
EnqueueFront(q, job) == <<job>> \o q

\* UnboundedSender::send: the message goes to the back of the queue.
Enqueue(q, job) == Append(q, job)

\* The gateway trace of an organization names the job of each call, and
\* consecutive calls of the same job are kept as one entry: a job appears
\* twice in it exactly when the calls of another job came in between.
Traced(trace, id) ==
    IF trace # <<>> /\ trace[Len(trace)] = id THEN trace ELSE Append(trace, id)

\* A worker that would spawn the handler of a job instead of awaiting it.
WorkerSpawns(o) == workerPc[o] # "stopped"

\* The worker is back in its select: the handler of the previous job has
\* been awaited to completion.
WorkerReady(o) == workerPc[o] = "idle"

\* jobs_tx.send(job): the send fails, and the job is lost, when the router
\* has dropped the receiver.
Send(job) ==
    /\ jobsChan' = IF routerPc = "run" THEN Enqueue(jobsChan, job) ELSE jobsChan
    /\ sentLog' = Append(sentLog, job)
    /\ nextJobId' = nextJobId + 1

\* The jobs the scheduler has still to send in the round it is in.
RoundToCome == IF schedPc = "sending" THEN Len(Orgs) - schedIdx + 1 ELSE 0

\* The webhook handler sends a job for a pull request of organization o.  The
\* HTTP server has shut down before the stop channel is signalled.
WebhookSend(o, kind) ==
    /\ ~stopSignal
    /\ nextJobId + RoundToCome < MaxJobs
    /\ Send(Job(nextJobId + 1, o, kind, TRUE))
    /\ UNCHANGED <<orgChan, routerPc, workerPc, inflight, stopSignal, schedPc, schedIdx,
                   started, mutTrace>>
    /\ UNCHANGED outsideJobs

\* The scheduler's interval ticks; the stop branch is polled first.
SchedulerTick ==
    /\ schedPc = "wait"
    /\ ~stopSignal
    /\ nextJobId + Len(Orgs) <= MaxJobs
    /\ schedPc' = "sending"
    /\ schedIdx' = 1
    /\ UNCHANGED <<jobsChan, orgChan, routerPc, workerPc, inflight, stopSignal, nextJobId,
                   sentLog, started, mutTrace>>
    /\ UNCHANGED outsideJobs

\* One iteration of the loop over the organizations: send a periodic
\* reconcile job, then sleep 30 s.
SchedulerSend ==
    /\ schedPc = "sending"
    /\ Send(Job(nextJobId + 1, Orgs[schedIdx], "Reconcile", FALSE))
    /\ IF schedIdx < Len(Orgs)
       THEN schedIdx' = schedIdx + 1 /\ schedPc' = "sending"
       ELSE schedIdx' = 0 /\ schedPc' = "wait"
    /\ UNCHANGED <<orgChan, routerPc, workerPc, inflight, stopSignal, started, mutTrace>>
    /\ UNCHANGED outsideJobs

SchedulerStop ==
    /\ schedPc = "wait"
    /\ stopSignal
    /\ schedPc' = "stopped"
    /\ UNCHANGED <<jobsChan, orgChan, routerPc, workerPc, inflight, stopSignal, schedIdx,
                   nextJobId, sentLog, started, mutTrace>>
    /\ UNCHANGED outsideJobs

\* The router takes the next job of the central channel and sends it to the
\* worker of its organization; the send fails when that worker has stopped.
RouterForward ==
    /\ routerPc = "run"
    /\ jobsChan # <<>>
    /\ LET job == Head(jobsChan)
       IN  orgChan' = IF org_name(job) \in OrgNames /\ workerPc[org_name(job)] # "stopped"
                      THEN [orgChan EXCEPT ![org_name(job)] = Enqueue(@, job)]
                      ELSE orgChan
    /\ jobsChan' = Tail(jobsChan)
    /\ UNCHANGED <<routerPc, workerPc, inflight, stopSignal, schedPc, schedIdx, nextJobId,
                   sentLog, started, mutTrace>>
    /\ UNCHANGED outsideJobs

\* The select is biased: the stop branch is taken when no job is waiting.
RouterStop ==
    /\ routerPc = "run"
    /\ jobsChan = <<>>
    /\ stopSignal
    /\ routerPc' = "stopped"
    /\ UNCHANGED <<jobsChan, orgChan, workerPc, inflight, stopSignal, schedPc, schedIdx,
                   nextJobId, sentLog, started, mutTrace>>
    /\ UNCHANGED outsideJobs

\* The worker of o takes the next job of its channel and calls its handler.
WorkerStart(o) ==
    /\ WorkerReady(o)
    /\ orgChan[o] # <<>>
    /\ LET job == Head(orgChan[o])
       IN  /\ inflight' = [inflight EXCEPT ![o] = @ \cup {job.id}]
           /\ started' = [started EXCEPT ![o] = Append(@, job.id)]
    /\ orgChan' = [orgChan EXCEPT ![o] = Tail(@)]
    /\ workerPc' = [workerPc EXCEPT ![o] = "busy"]
    /\ UNCHANGED <<jobsChan, routerPc, stopSignal, schedPc, schedIdx, nextJobId, sentLog,
                   mutTrace>>
    /\ UNCHANGED outsideJobs

\* The handler of a job in progress makes one gateway call.
HandlerCall(o, id) ==
    /\ id \in inflight[o]
    /\ mutTrace' = [mutTrace EXCEPT ![o] = Traced(@, id)]
    /\ UNCHANGED <<jobsChan, orgChan, routerPc, workerPc, inflight, stopSignal, schedPc,
                   schedIdx, nextJobId, sentLog, started>>
    /\ UNCHANGED outsideJobs

\* handle_reconcile_job / handle_validate_job returns; both start by fetching
\* through the gateway, so a handler that returns has made a call.
HandlerReturn(o, id) ==
    /\ id \in inflight[o]
    /\ id \in Range(mutTrace[o])
    /\ inflight' = [inflight EXCEPT ![o] = @ \ {id}]
    /\ workerPc' = [workerPc EXCEPT ![o] = "idle"]
    /\ UNCHANGED <<jobsChan, orgChan, routerPc, stopSignal, schedPc, schedIdx, nextJobId,
                   sentLog, started, mutTrace>>
    /\ UNCHANGED outsideJobs

\* A worker that would never take the stop branch.
WorkerIgnoresStop(o) ==
    /\ FALSE
    /\ UNCHANGED vars

\* A worker that would take the stop branch whatever waits in its channel.
WorkerStopsAtOnce(o) ==
    /\ WorkerReady(o)
    /\ stopSignal
    /\ workerPc' = [workerPc EXCEPT ![o] = "stopped"]
    /\ UNCHANGED <<jobsChan, orgChan, routerPc, inflight, stopSignal, schedPc, schedIdx,
                   nextJobId, sentLog, started, mutTrace>>
    /\ UNCHANGED outsideJobs

\* The stop branch of the worker's select: it is polled only when the worker
\* is back in the select, and taken when no job is waiting.
WorkerStop(o) ==
    /\ WorkerReady(o)
    /\ orgChan[o] = <<>>
    /\ stopSignal
    /\ workerPc' = [workerPc EXCEPT ![o] = "stopped"]
    /\ UNCHANGED <<jobsChan, orgChan, routerPc, inflight, stopSignal, schedPc, schedIdx,
                   nextJobId, sentLog, started, mutTrace>>
    /\ UNCHANGED outsideJobs

\* The stop channel is signalled (the server shuts down).
Shutdown ==
    /\ ~stopSignal
    /\ stopSignal' = TRUE
    /\ UNCHANGED <<jobsChan, orgChan, routerPc, workerPc, inflight, schedPc, schedIdx,
                   nextJobId, sentLog, started, mutTrace>>
    /\ UNCHANGED outsideJobs

JobsIdle ==
    /\ jobsChan = <<>>
    /\ orgChan = [o \in OrgNames |-> <<>>]
    /\ routerPc = "off"
    /\ workerPc = [o \in OrgNames |-> "off"]
    /\ inflight = [o \in OrgNames |-> {}]
    /\ stopSignal = FALSE
    /\ schedPc = "off"
    /\ schedIdx = 0
    /\ nextJobId = 0
    /\ sentLog = <<>>
    /\ started = [o \in OrgNames |-> <<>>]
    /\ mutTrace = [o \in OrgNames |-> <<>>]

\* Handler::start and scheduler have spawned their tasks.
JobsInit ==
    /\ jobsChan = <<>>
    /\ orgChan = [o \in OrgNames |-> <<>>]
    /\ routerPc = "run"
    /\ workerPc = [o \in OrgNames |-> "idle"]
    /\ inflight = [o \in OrgNames |-> {}]
    /\ stopSignal = FALSE
    /\ schedPc = "wait"
    /\ schedIdx = 0
    /\ nextJobId = 0
    /\ sentLog = <<>>
    /\ started = [o \in OrgNames |-> <<>>]
    /\ mutTrace = [o \in OrgNames |-> <<>>]

---------------------------------------------------------------------------
(* SpecWebhook: the event handler of the HTTP server (handlers.rs) for one *)
(* request, and handle_validate_job (jobs.rs) for the job it sends.        *)

webhook_secret == "s1"

\* HMAC-SHA256 of a body under a key: equal exactly for equal keys and bodies.
Hmac(key, body) == <<key, body>>

\* The X-Hub-Signature-256 header: absent, or a value that may not be
\* visible ASCII, may not start with sha256=, and may not be hex; bytes is
\* what the hex decodes to.
NoHeader == [present |-> FALSE, ascii |-> TRUE, prefix |-> "", hex |-> TRUE, bytes |-> <<>>]
Header(ascii, prefix, hex, bytes) ==
    [present |-> TRUE, ascii |-> ascii, prefix |-> prefix, hex |-> hex, bytes |-> bytes]

\* A verification that would try the primary secret only.
verify_signature_primary_only(signature, secret, secret_fallback, body) ==
    /\ signature.present
    /\ signature.ascii
    /\ signature.prefix = "sha256="
    /\ signature.hex
    /\ Hmac(secret, body) = signature.bytes

\* verify_signature returns Ok: the header decodes, and its bytes are the
\* MAC of the body under the primary secret or, when one is set, under the
\* fallback secret ("none" when it is not set).
verify_signature(signature, secret, secret_fallback, body) ==
    /\ signature.present
    /\ signature.ascii
    /\ signature.prefix = "sha256="
    /\ signature.hex
    /\ IF Hmac(secret, body) = signature.bytes
       THEN TRUE
       ELSE IF secret_fallback = "none"
            THEN FALSE
            ELSE Hmac(secret_fallback, body) = signature.bytes

Response(status, msg) == [status |-> status, msg |-> msg]
NoResponse == Response(0, "")

\* ChecksCreateRequest (new_checks_create_request) and the comment posted.
CheckRun(head_sha, status, conclusion, title) ==
    [call |-> "create_check_run", head_sha |-> head_sha, status |-> status,
     conclusion |-> conclusion, title |-> title, pr_number |-> 0, body |-> ""]
Comment(pr_number, body) ==
    [call |-> "post_comment", head_sha |-> "", status |-> "", conclusion |-> "",
     title |-> "", pr_number |-> pr_number, body |-> body]

\* The configuration repository and branch of a registered organization.
OrgRepository == ".clowarden"
OrgBranch == "main"

\* A check that would find a configuration file in every pull request.
pr_always_updates_config(req) == "yes"

\* pr_updates_config: "yes" for Ok(true), "no" for Ok(false), "err" when the
\* files of the pull request cannot be listed.  req.files tells what
\* list_pr_files returns: a list with a configuration file ("cfg"), a list
\* without one ("other"), or an error ("err").
pr_updates_config(req) ==
    IF OrgRepository # req.repository
    THEN "no"
    ELSE IF OrgBranch # req.base_ref
    THEN "no"
    ELSE IF req.files = "err"
    THEN "err"
    ELSE IF req.files = "cfg"
    THEN "yes"
    ELSE "no"

\* What the handler does with a request: the response, the jobs it sends,
\* the check-run it creates (checkOk: create_check_run succeeds) and, in
\* calls, what it has called in order.
event(req, secret_fallback, checkOk) ==
    LET Only(resp) == [response |-> resp, jobs |-> <<>>, writes |-> <<>>, calls |-> <<>>]
    IN  IF ~verify_signature(req.signature, webhook_secret, secret_fallback, req.body)
        THEN Only(Response(400, "no valid signature found"))
        ELSE IF req.event_header = "none"
        THEN Only(Response(400, "event header missing"))
        ELSE IF req.event_header # "pull_request"
        THEN Only(Response(200, ""))
        ELSE IF ~req.json_ok
        THEN Only(Response(400, "invalid body"))
        ELSE IF req.org \notin OrgNames
        THEN Only(Response(200, ""))
        ELSE IF req.action \notin {"closed", "opened", "synchronize"}
        THEN Only(Response(200, ""))
        ELSE IF pr_updates_config(req) # "yes"
        THEN Only(Response(200, ""))
        ELSE IF req.action \in {"opened", "synchronize"}
        THEN [response |-> Response(200, ""),
              jobs |-> <<Job(1, req.org, "Validate", TRUE)>>,
              writes |-> IF checkOk
                         THEN <<CheckRun(req.head_sha, "in_progress", "",
                                         "Validating configuration changes")>>
                         ELSE <<>>,
              calls |-> <<"create_check_run", "jobs_tx.send">>]
        ELSE IF req.merged
        THEN [response |-> Response(200, ""),
              jobs |-> <<Job(1, req.org, "Reconcile", TRUE)>>,
              writes |-> <<>>,
              calls |-> <<"jobs_tx.send">>]
        ELSE Only(Response(200, ""))

\* A report that would always conclude with success.
check_body_success(head_sha, errors_found) ==
    CheckRun(head_sha, "completed", "success",
             "The configuration changes proposed are valid")

\* The terminal check-run of handle_validate_job.
check_body(head_sha, errors_found) ==
    IF errors_found
    THEN CheckRun(head_sha, "completed", "failure",
                  "The configuration changes proposed are not valid")
    ELSE CheckRun(head_sha, "completed", "success",
                  "The configuration changes proposed are valid")

\* The template rendered for the comment.
comment_body(errors_found) ==
    IF errors_found THEN "ValidationFailed" ELSE "ValidationSucceeded"

SignatureOptions ==
    {NoHeader,
     Header(FALSE, "sha256=", TRUE, Hmac("s1", "b1")),
     Header(TRUE, "sha1=", TRUE, Hmac("s1", "b1")),
     Header(TRUE, "sha256=", FALSE, <<>>)}
    \cup {Header(TRUE, "sha256=", TRUE, Hmac(k, b)) : k \in {"s1", "s2", "s3"},
                                                       b \in {"b1", "b2"}}

Requests ==
    [signature : SignatureOptions,
     body : {"b1"},
     event_header : {"none", "pull_request", "push"},
     json_ok : BOOLEAN,
     org : {"o1", "ox"},
     action : {"opened", "synchronize", "closed", "edited"},
     merged : BOOLEAN,
     repository : {".clowarden", "other"},
     base_ref : {"main", "dev"},
     files : {"cfg", "other", "err"},
     head_sha : {"sha1"},
     pr_number : {7}]

NoRequest ==
    [signature |-> NoHeader, body |-> "", event_header |-> "none", json_ok |-> FALSE,
     org |-> "", action |-> "", merged |-> FALSE, repository |-> "", base_ref |-> "",
     files |-> "other",
     head_sha |-> "", pr_number |-> 0]

HookIdle ==
    /\ hookPc = "off"
    /\ request = NoRequest
    /\ webhook_secret_fallback = "none"
    /\ response = NoResponse
    /\ jobs_tx = <<>>
    /\ ghLog = <<>>
    /\ vjPc = "off"
    /\ merr = <<>>
    /\ vjReturn = "none"
    /\ hookCalls = <<>>

HookInit ==
    /\ hookPc = "request"
    /\ request \in Requests
    /\ webhook_secret_fallback \in {"none", "s2"}
    /\ response = NoResponse
    /\ jobs_tx = <<>>
    /\ ghLog = <<>>
    /\ vjPc = "off"
    /\ merr = <<>>
    /\ vjReturn = "none"
    /\ hookCalls = <<>>

\* The handler runs on the request and responds.
Event ==
    /\ hookPc = "request"
    /\ \E checkOk \in BOOLEAN :
          LET out == event(request, webhook_secret_fallback, checkOk)
          IN  /\ response' = out.response
              /\ jobs_tx' = jobs_tx \o out.jobs
              /\ ghLog' = ghLog \o out.writes
              /\ hookCalls' = out.calls
    /\ hookPc' = "responded"
    /\ UNCHANGED <<request, webhook_secret_fallback, vjPc, merr, vjReturn>>
    /\ UNCHANGED outsideWebhook

\* The worker takes the validate job and asks for the directory's changes
\* summary; on an error the services are not asked.
DirectoryChangesSummary ==
    /\ vjPc = "off"
    /\ jobs_tx # <<>>
    /\ Head(jobs_tx).kind = "Validate"
    /\ jobs_tx' = Tail(jobs_tx)
    /\ \E err \in BOOLEAN :
          /\ merr' = IF err THEN Append(merr, "directory") ELSE merr
          /\ vjPc' = IF err THEN "report" ELSE "services"
    /\ UNCHANGED <<hookCalls, hookPc, request, webhook_secret_fallback, response, ghLog, vjReturn>>
    /\ UNCHANGED outsideWebhook

\* The changes summary of the services (github is the only one).
ServicesChangesSummary ==
    /\ vjPc = "services"
    /\ \E err \in BOOLEAN : merr' = IF err THEN Append(merr, "github") ELSE merr
    /\ vjPc' = "report"
    /\ UNCHANGED <<hookCalls, hookPc, request, webhook_secret_fallback, response, jobs_tx, ghLog,
                   vjReturn>>
    /\ UNCHANGED outsideWebhook

\* self.gh.post_comment(..).await?
PostComment ==
    /\ vjPc = "report"
    /\ \E ok \in BOOLEAN :
          IF ok
          THEN /\ ghLog' = Append(ghLog, Comment(request.pr_number,
                                                 comment_body(merr # <<>>)))
               /\ vjPc' = "commented"
               /\ UNCHANGED vjReturn
          ELSE /\ vjPc' = "returned"
               /\ vjReturn' = "post_comment_error"
               /\ UNCHANGED ghLog
    /\ UNCHANGED <<hookCalls, hookPc, request, webhook_secret_fallback, response, jobs_tx, merr>>
    /\ UNCHANGED outsideWebhook

\* self.gh.create_check_run(..).await?, then the result of the validation.
CreateCheckRun ==
    /\ vjPc = "commented"
    /\ \E ok \in BOOLEAN :
          IF ok
          THEN /\ ghLog' = Append(ghLog, check_body(request.head_sha, merr # <<>>))
               /\ vjReturn' = IF merr # <<>> THEN "validation_error" ELSE "Ok"
          ELSE /\ vjReturn' = "create_check_run_error"
               /\ UNCHANGED ghLog
    /\ vjPc' = "returned"
    /\ UNCHANGED <<hookCalls, hookPc, request, webhook_secret_fallback, response, jobs_tx, merr>>
    /\ UNCHANGED outsideWebhook

---------------------------------------------------------------------------
(* SpecLoader: process_composite_teams and remove_duplicates, the passes   *)
(* of sheriff::Cfg::get (directory/legacy.rs) over the teams as parsed.    *)
(* The lists are vectors: order and duplicates are kept until removed.     *)

\* Option<Vec<..>>
None == [some |-> FALSE, v |-> <<>>]
Some(v) == [some |-> TRUE, v |-> v]
unwrap_or_empty(o) == IF o.some THEN o.v ELSE <<>>

LegacyTeam(name, maintainers, members, formation) ==
    [name |-> name, maintainers |-> maintainers, members |-> members,
     formation |-> formation]

\* The user names of the loader, in the order of String.
LoaderUsers == <<"m1", "m2", "x1">>

\* teams_copy.iter().find(|t| &t.name == team_name): the index of the first
\* team with that name, 0 when there is none.
find(teams, name) ==
    LET S == {i \in 1..Len(teams) : teams[i].name = name}
    IN  IF S = {} THEN 0 ELSE CHOOSE i \in S : \A j \in S : i <= j

\* One named team folded into the lists of a team.
extend_from(list, source) ==
    IF list.some THEN Some(list.v \o unwrap_or_empty(source)) ELSE source

RECURSIVE fold_formation(_, _, _)
fold_formation(team, names, teams_copy) ==
    IF names = <<>>
    THEN team
    ELSE LET i == find(teams_copy, Head(names))
             next == IF i = 0
                     THEN team
                     ELSE [team EXCEPT
                             !.maintainers = extend_from(@, teams_copy[i].maintainers),
                             !.members = extend_from(@, teams_copy[i].members)]
         IN  fold_formation(next, Tail(names), teams_copy)

\* An expansion without the copy: every team is folded over the teams as the
\* teams before it in the file have left them.
process_composite_teams_in_place(teams) ==
    LET done[i \in 0..Len(teams)] ==
            IF i = 0
            THEN teams
            ELSE [done[i - 1] EXCEPT
                    ![i] = IF @.formation.some
                           THEN fold_formation(@, @.formation.v, done[i - 1])
                           ELSE @]
    IN  done[Len(teams)]

process_composite_teams(teams) ==
    [i \in 1..Len(teams) |->
        IF teams[i].formation.some
        THEN fold_formation(teams[i], teams[i].formation.v, teams)
        ELSE teams[i]]

\* Vec::sort, then Vec::dedup (consecutive equal elements are removed).
sort(s) ==
    Concat([i \in 1..Len(LoaderUsers) |-> SelectSeq(s, LAMBDA x : x = LoaderUsers[i])])

RECURSIVE dedup(_)
dedup(s) ==
    IF Len(s) <= 1
    THEN s
    ELSE IF s[1] = s[2] THEN dedup(Tail(s)) ELSE <<s[1]>> \o dedup(Tail(s))

\* A pass that would leave the lists as they are.
keep_duplicates(teams) == teams

remove_duplicates(teams) ==
    [i \in 1..Len(teams) |->
        [teams[i] EXCEPT
            !.maintainers = IF @.some THEN Some(dedup(sort(@.v))) ELSE @,
            !.members = IF @.some THEN Some(dedup(sort(@.v))) ELSE @]]

LoaderTeamsA ==
    {LegacyTeam("a", ma, me, f) :
        ma \in {None, Some(<<"m1">>), Some(<<"m2", "m1">>)},
        me \in {None, Some(<<"x1">>), Some(<<"x1", "m1">>)},
        f \in {None, Some(<<"b">>)}}
LoaderTeamsB ==
    {LegacyTeam("b", ma, me, f) :
        ma \in {None, Some(<<>>), Some(<<"m2">>), Some(<<"m2", "m1", "m2">>)},
        me \in {None, Some(<<"x1">>), Some(<<"m2">>)},
        f \in {None, Some(<<>>), Some(<<"a">>), Some(<<"a", "a">>), Some(<<"c">>),
               Some(<<"a", "b">>)}}

LoaderTeamsC ==
    {LegacyTeam("c", ma, me, f) :
        ma \in {None, Some(<<"m1">>)},
        me \in {None, Some(<<"m2">>)},
        f \in {None, Some(<<"a">>)}}

\* The teams of a file in another order.
reorder(teams, p) == [i \in 1..Len(teams) |-> teams[p[i]]]

\* The files: teams a and b, or a, b and c (a and b without members), in any
\* order.
LoaderFiles ==
    LET NoMembers(S) == {t \in S : ~t.members.some}
        Files == {<<a, b>> : a \in LoaderTeamsA, b \in LoaderTeamsB}
                 \cup {<<a, b, c>> : a \in NoMembers(LoaderTeamsA),
                                     b \in NoMembers(LoaderTeamsB),
                                     c \in LoaderTeamsC}
    IN  UNION {{reorder(f, p) : p \in Permutations(1..Len(f))} : f \in Files}

LoadIdle ==
    /\ loadPc = "off"
    /\ loadCfg = <<>>
    /\ loadTeams = <<>>

LoadInit ==
    /\ loadPc = "parsed"
    /\ loadCfg \in LoaderFiles
    /\ loadTeams = loadCfg

\* cfg.process_composite_teams(); cfg.remove_duplicates();
ProcessTeams ==
    /\ loadPc = "parsed"
    /\ loadTeams' = remove_duplicates(process_composite_teams(loadTeams))
    /\ loadPc' = "processed"
    /\ UNCHANGED loadCfg
    /\ UNCHANGED outsideLoader

---------------------------------------------------------------------------
(* SpecSummary: Handler::get_changes_summary (services/github/mod.rs) on   *)
(* the configuration of a head reference and of the base reference.        *)

\* The users validate_users collects from the changes.
no_users_to_validate(chs) == {}

users_to_validate(chs) ==
    {c.user : c \in {c \in Range(chs.directory) : c.kind = "TeamMemberAdded"}}
    \cup {c.name : c \in {c \in Range(chs.repositories) : c.kind = "CollaboratorAdded"}}

\* validate_users: the errors pushed, one per user whose login the platform
\* does not confirm (logins[u] is "same", "other" for another login, or
\* "err" when the lookup fails); the users are visited in the order ordU.
validate_users(chs, logins, ordU) ==
    LET us == InOrder(users_to_validate(chs), ordU)
        bad == SelectSeq(us, LAMBDA u : logins[u] # "same")
    IN  [i \in 1..Len(bad) |->
            ValidationError(IF logins[bad[i]] = "other" THEN "invalid_username"
                            ELSE "error_validating_username", "", "", bad[i], NoRole)]

Summary(ok, context, errors, chs, status) ==
    [ok |-> ok, context |-> context, errors |-> errors, changes |-> chs,
     base_ref_config_status |-> status]
NoSummary == Summary(FALSE, "", <<>>, <<>>, "")

\* What the platform answers while the states are built.
SummaryAdmins == {}
SummaryMembers == UserNames
SummaryRepositories == [r \in RepoNames |-> NoSvcRepo]

\* State::new_from_config for one reference: the fetches may fail.
build(cfg, fetched, ordT, ordU) ==
    IF fetched
    THEN new_from_config(cfg.teams, cfg.repos, SummaryRepositories, SummaryAdmins,
                         SummaryMembers, ordT, ordU)
    ELSE [ok |-> FALSE, context |-> "fetch", errors |-> <<>>, state |-> EmptyState]

get_changes_summary(head, base, fetch, logins, ordR, ordT, ordU, ordF) ==
    LET head_state == build(head, fetch.head, ordT, ordU)
        base_state == build(base, fetch.base, ordT, ordU)
        chs == State_diff(base_state.state, head_state.state, ordR, ordT, ordU, ordF)
        uerr == validate_users(chs, logins, ordU)
    IN  IF ~head_state.ok
        THEN Summary(FALSE, head_state.context, head_state.errors, <<>>, "")
        ELSE IF ~base_state.ok
        THEN Summary(TRUE, "", <<>>, <<>>, "Invalid")
        ELSE IF uerr # <<>>
        THEN Summary(FALSE, "invalid github service configuration", uerr, <<>>, "")
        ELSE Summary(TRUE, "", <<>>, chs.repositories, "Valid")

SummaryConfigs ==
    {[teams |-> [t1 |-> a, t2 |-> NoTeam], repos |-> [r1 |-> b, r2 |-> NoRepo]] :
        a \in {NoTeam, Team({"u1"}, {}), Team({"u1"}, {"u2"}), Team({}, {"u2"})},
        b \in {NoRepo,
               Repository([t1 |-> Read, t2 |-> NoRole], [u1 |-> NoRole, u2 |-> Read], "none"),
               Repository([t1 |-> Write, t2 |-> NoRole], [u1 |-> Write, u2 |-> NoRole],
                          "private")}}

NoConfig == [teams |-> [t \in TeamNames |-> NoTeam], repos |-> [r \in RepoNames |-> NoRepo]]

SumIdle ==
    /\ sumPc = "off"
    /\ sumHead = NoConfig
    /\ sumBase = NoConfig
    /\ sumFetch = [head |-> TRUE, base |-> TRUE]
    /\ sumLogins = [u \in UserNames |-> "same"]
    /\ sumOut = NoSummary

SumInit ==
    /\ sumPc = "input"
    /\ sumHead \in SummaryConfigs
    /\ sumBase \in SummaryConfigs
    /\ sumFetch \in [head : BOOLEAN, base : BOOLEAN]
    /\ sumLogins \in [UserNames -> {"same", "other", "err"}]
    /\ sumOut = NoSummary

GetChangesSummary ==
    /\ sumPc = "input"
    /\ \E ordR \in Perms(RepoNames), ordT \in Perms(TeamNames),
          ordU \in Perms(UserNames), ordF \in Perms(FullNames) :
            sumOut' = get_changes_summary(sumHead, sumBase, sumFetch, sumLogins,
                                          ordR, ordT, ordU, ordF)
    /\ sumPc' = "done"
    /\ UNCHANGED <<sumHead, sumBase, sumFetch, sumLogins>>
    /\ UNCHANGED outsideSummary

---------------------------------------------------------------------------
(* The reconcile job handler: every enabled service reconciles, the        *)
(* outcome is registered in the database, and a completion comment is      *)
(* posted on the pull request the job came from, when it came from one.    *)

\* The jobs' input, as the webhook (from a merged pull request) and the
\* scheduler (all the pull request fields left at their default) build it.
NoPrNumber == [some |-> FALSE, v |-> 0]
PrNumber(n) == [some |-> TRUE, v |-> n]
ReconcileInput_new(org, pr_number) == [org |-> org, pr_number |-> PrNumber(pr_number)]
ReconcileInput_default(org) == [org |-> org, pr_number |-> NoPrNumber]

always_some(i) == TRUE

pr_number_is_some(i) == i.pr_number.some

RegisterCall(applied, errors, ok) ==
    [op |-> "register_reconciliation", service |-> "", applied |-> applied,
     errors |-> errors, pr_number |-> NoPrNumber, ok |-> ok]
ReconcileCall(service, ok) ==
    [op |-> "reconcile", service |-> service, applied |-> {}, errors |-> {},
     pr_number |-> NoPrNumber, ok |-> ok]
CommentCall(pr_number, ok) ==
    [op |-> "post_comment", service |-> "", applied |-> {}, errors |-> {},
     pr_number |-> PrNumber(pr_number), ok |-> ok]

ServiceNames == {"github"}
PrNumbers == {7, 8, 9}
ReconcileInputs ==
    {ReconcileInput_default(o) : o \in OrgNames}
        \cup {ReconcileInput_new(o, n) : o \in OrgNames, n \in PrNumbers}

RjIdle ==
    /\ rjPc = "off"
    /\ input = ReconcileInput_default("o1")
    /\ services = {}
    /\ rjPending = {}
    /\ rjApplied = {}
    /\ rjErrors = {}
    /\ rjLog = <<>>

RjInit ==
    /\ rjPc = "services"
    /\ input \in ReconcileInputs
    /\ services \in SUBSET ServiceNames
    /\ rjPending = services
    /\ rjApplied = {}
    /\ rjErrors = {}
    /\ rjLog = <<>>

\* One turn of the loop over the services: the service's outcome goes to
\* changes_applied or to errors.
ServiceReconcile ==
    /\ rjPc = "services"
    /\ \E s \in rjPending, ok \in BOOLEAN :
        /\ rjPending' = rjPending \ {s}
        /\ rjApplied' = IF ok THEN rjApplied \cup {s} ELSE rjApplied
        /\ rjErrors' = IF ok THEN rjErrors ELSE rjErrors \cup {s}
        /\ rjLog' = Append(rjLog, ReconcileCall(s, ok))
    /\ UNCHANGED <<rjPc, input, services>>
    /\ UNCHANGED outsideReconcileJob

\* The loop is over; a failure to register is logged and nothing else.
RegisterReconciliation ==
    /\ rjPc = "services"
    /\ rjPending = {}
    /\ \E ok \in BOOLEAN : rjLog' = Append(rjLog, RegisterCall(rjApplied, rjErrors, ok))
    /\ rjPc' = "registered"
    /\ UNCHANGED <<input, services, rjPending, rjApplied, rjErrors>>
    /\ UNCHANGED outsideReconcileJob

\* A failure to post the comment is logged and nothing else.
PostReconciliationComment ==
    /\ rjPc = "registered"
    /\ pr_number_is_some(input)
    /\ \E ok \in BOOLEAN : rjLog' = Append(rjLog, CommentCall(input.pr_number.v, ok))
    /\ rjPc' = "returned"
    /\ UNCHANGED <<input, services, rjPending, rjApplied, rjErrors>>
    /\ UNCHANGED outsideReconcileJob

ReturnWithoutComment ==
    /\ rjPc = "registered"
    /\ ~pr_number_is_some(input)
    /\ rjPc' = "returned"
    /\ UNCHANGED <<input, services, rjPending, rjApplied, rjErrors, rjLog>>
    /\ UNCHANGED outsideReconcileJob

---------------------------------------------------------------------------
(* The scheduler task against the clock, in seconds.  The interval's first *)
(* tick completes at once; a sleep or a tick may complete late, as a       *)
(* timer does when the task is not polled in time.                         *)

RECONCILE_FREQUENCY == 3600
SEND_DELAY == 30
\* How late a timer may fire, and when the clock stops.
MaxLate == 7300
MaxTime == 15000

Later(a, b) == IF a >= b THEN a ELSE b

\* tokio's MissedTickBehavior::next_timeout for a tick that was due at
\* `due` and completes at `at`.
MissedTickBehavior_Burst(due, at, period) == due + period

MissedTickBehavior_Skip(due, at, period) == at + period - ((at - due) % period)

next_timeout(due, at, period) == MissedTickBehavior_Skip(due, at, period)

TickEvent(at) == [ev |-> "tick", at |-> at, job |-> ReconcileInput_default("")]
SendEvent(at, job) == [ev |-> "send", at |-> at, job |-> job]

TickIdle ==
    /\ tkPc = "off"
    /\ clock = 0
    /\ timeout = 0
    /\ tkIdx = 0
    /\ stop_rx = FALSE
    /\ tkLog = <<>>

TickInit ==
    /\ tkPc = "select"
    /\ clock = 0
    /\ timeout = 0
    /\ tkIdx = 0
    /\ stop_rx = FALSE
    /\ tkLog = <<>>

\* The server asks its tasks to stop.
StopRequested ==
    /\ tkPc \in {"select", "round"}
    /\ ~stop_rx
    /\ stop_rx' = TRUE
    /\ UNCHANGED <<tkPc, clock, timeout, tkIdx, tkLog>>
    /\ UNCHANGED outsideScheduler

\* select!, biased: the stop branch first.
SchedulerBreak ==
    /\ tkPc = "select"
    /\ stop_rx
    /\ tkPc' = "stopped"
    /\ UNCHANGED <<clock, timeout, tkIdx, stop_rx, tkLog>>
    /\ UNCHANGED outsideScheduler

\* reconcile.tick() completes, no earlier than it is due, and the interval
\* is armed for its next tick.
IntervalTick ==
    /\ tkPc = "select"
    /\ ~stop_rx
    /\ \E late \in {0, MaxLate} :
        LET at == Later(clock, timeout) + late
        IN  /\ at <= MaxTime
            /\ clock' = at
            /\ timeout' = next_timeout(timeout, at, RECONCILE_FREQUENCY)
            /\ tkLog' = Append(tkLog, TickEvent(at))
    /\ IF Len(Orgs) > 0
       THEN tkPc' = "round" /\ tkIdx' = 1
       ELSE tkPc' = "select" /\ tkIdx' = 0
    /\ UNCHANGED stop_rx
    /\ UNCHANGED outsideScheduler

\* One turn of the loop over the organizations: send the job, then sleep.
SendAndSleep ==
    /\ tkPc = "round"
    /\ \E late \in {0, MaxLate} :
        /\ clock + SEND_DELAY + late <= MaxTime
        /\ clock' = clock + SEND_DELAY + late
    /\ tkLog' = Append(tkLog, SendEvent(clock, ReconcileInput_default(Orgs[tkIdx])))
    /\ IF tkIdx < Len(Orgs)
       THEN tkIdx' = tkIdx + 1 /\ tkPc' = "round"
       ELSE tkIdx' = 0 /\ tkPc' = "select"
    /\ UNCHANGED <<timeout, stop_rx>>
    /\ UNCHANGED outsideScheduler

---------------------------------------------------------------------------
(* The three list operations of SvcApi that are memoized (#[cached], 60 s, *)
(* Ok results only).  Each `inner` function has one store for the whole    *)
(* process, whatever the organization of the call.                         *)

\* The key a call is stored under: the `convert` expression of each store.
list_org_admins_key(org) == org
list_org_members_key(org) == org
list_repository_invitations_key(org, repo_name) == repo_name

NoEntry == [live |-> FALSE, value |-> {}, stored_by |-> ""]
Entry(value, org) == [live |-> TRUE, value |-> value, stored_by |-> org]
NoCall == [op |-> "", org |-> "", repo |-> "", ok |-> FALSE, value |-> {}, hit |-> FALSE,
           stored_by |-> ""]
ListCall(op, org, repo, ok, value, hit, stored_by) ==
    [op |-> op, org |-> org, repo |-> repo, ok |-> ok, value |-> value, hit |-> hit,
     stored_by |-> stored_by]

\* What a memoized call returns and leaves in its store: the live entry of
\* the key, or else the fetched list, stored when the fetch succeeded.
Cached(store, key, op, org, repo, fetched) ==
    IF store[key].live
    THEN {[store |-> store,
           call |-> ListCall(op, org, repo, TRUE, store[key].value, TRUE, store[key].stored_by)]}
    ELSE {[store |-> [store EXCEPT ![key] = Entry(fetched, org)],
           call |-> ListCall(op, org, repo, TRUE, fetched, FALSE, org)],
          [store |-> store,
           call |-> ListCall(op, org, repo, FALSE, {}, FALSE, "")]}

CacheIdle ==
    /\ ghAdmins = [o \in OrgNames |-> {}]
    /\ ghMembers = [o \in OrgNames |-> {}]
    /\ ghInvitations = [o \in OrgNames |-> [r \in RepoNames |-> {}]]
    /\ adminsCache = [k \in OrgNames |-> NoEntry]
    /\ membersCache = [k \in OrgNames |-> NoEntry]
    /\ invitationsCache = [k \in RepoNames |-> NoEntry]
    /\ lastCall = NoCall

CacheInit ==
    /\ ghAdmins \in [OrgNames -> {{"u1"}, {"u2"}}]
    /\ ghMembers = [o \in OrgNames |-> ghAdmins[o] \cup {"u1"}]
    /\ ghInvitations \in [OrgNames -> {[r1 |-> {}, r2 |-> {}], [r1 |-> {"u2"}, r2 |-> {}]}]
    /\ adminsCache = [k \in OrgNames |-> NoEntry]
    /\ membersCache = [k \in OrgNames |-> NoEntry]
    /\ invitationsCache = [k \in RepoNames |-> NoEntry]
    /\ lastCall = NoCall

ListOrgAdmins(org) ==
    /\ \E o \in Cached(adminsCache, list_org_admins_key(org), "list_org_admins", org, "",
                       ghAdmins[org]) :
        /\ adminsCache' = o.store
        /\ lastCall' = o.call
    /\ UNCHANGED <<ghAdmins, ghMembers, ghInvitations, membersCache, invitationsCache>>
    /\ UNCHANGED outsideCache

ListOrgMembers(org) ==
    /\ \E o \in Cached(membersCache, list_org_members_key(org), "list_org_members", org, "",
                       ghMembers[org]) :
        /\ membersCache' = o.store
        /\ lastCall' = o.call
    /\ UNCHANGED <<ghAdmins, ghMembers, ghInvitations, adminsCache, invitationsCache>>
    /\ UNCHANGED outsideCache

ListRepositoryInvitations(org, repo_name) ==
    /\ \E o \in Cached(invitationsCache, list_repository_invitations_key(org, repo_name),
                       "list_repository_invitations", org, repo_name,
                       ghInvitations[org][repo_name]) :
        /\ invitationsCache' = o.store
        /\ lastCall' = o.call
    /\ UNCHANGED <<ghAdmins, ghMembers, ghInvitations, adminsCache, membersCache>>
    /\ UNCHANGED outsideCache

\* An entry has lived its 60 seconds.
EntryExpires ==
    /\ \/ \E k \in OrgNames :
            /\ adminsCache[k].live
            /\ adminsCache' = [adminsCache EXCEPT ![k] = NoEntry]
            /\ UNCHANGED <<membersCache, invitationsCache>>
       \/ \E k \in OrgNames :
            /\ membersCache[k].live
            /\ membersCache' = [membersCache EXCEPT ![k] = NoEntry]
            /\ UNCHANGED <<adminsCache, invitationsCache>>
       \/ \E k \in RepoNames :
            /\ invitationsCache[k].live
            /\ invitationsCache' = [invitationsCache EXCEPT ![k] = NoEntry]
            /\ UNCHANGED <<adminsCache, membersCache>>
    /\ UNCHANGED <<ghAdmins, ghMembers, ghInvitations, lastCall>>
    /\ UNCHANGED outsideCache

---------------------------------------------------------------------------
(* One operation of SvcApi (service.rs) seen from the requests it makes on *)
(* the GitHub client: each request is awaited once and `?` returns its     *)
(* error to the caller.                                                    *)

ErrorKinds == {"RateLimited", "Transient", "NotFound", "Forbidden"}

Request(name, team, user) == [name |-> name, team |-> team, user |-> user]

\* SvcApi::add_team: create the team, then add each member.
SvcApi_add_team(team_name, members) ==
    <<Request("teams.create", team_name, "")>>
        \o [i \in 1..Len(members) |->
                Request("teams.add_or_update_membership_for_user_in_org", team_name, members[i])]

\* SvcApi::remove_team.
SvcApi_remove_team(team_name) == <<Request("teams.delete_in_org", team_name, "")>>

ApiOperations ==
    {[op |-> "remove_team", requests |-> SvcApi_remove_team(t)] : t \in TeamNames}
        \cup {[op |-> "add_team", requests |-> SvcApi_add_team(t, m)] :
                t \in TeamNames,
                m \in {<<>>, <<"u1">>, <<"u2">>, <<"u1", "u2">>, <<"u2", "u1">>}}

ApiIdle ==
    /\ apiPc = "off"
    /\ apiOp = ""
    /\ apiRequests = <<>>
    /\ apiLog = <<>>
    /\ apiResult = ""

ApiInit ==
    /\ apiPc = "run"
    /\ \E o \in ApiOperations :
        /\ apiOp = o.op
        /\ apiRequests = o.requests
    /\ apiLog = <<>>
    /\ apiResult = ""

\* The operation makes its next request; an error ends the operation with
\* that error, the last request's success ends it with Ok.
ClientRequest ==
    /\ apiPc = "run"
    /\ apiRequests # <<>>
    /\ \E outcome \in {"Ok"} \cup ErrorKinds :
        /\ apiLog' = Append(apiLog, [request |-> Head(apiRequests), outcome |-> outcome])
        /\ IF outcome # "Ok"
           THEN apiPc' = "returned" /\ apiResult' = outcome
           ELSE IF Tail(apiRequests) = <<>>
           THEN apiPc' = "returned" /\ apiResult' = "Ok"
           ELSE apiPc' = "run" /\ apiResult' = ""
    /\ apiRequests' = Tail(apiRequests)
    /\ UNCHANGED apiOp
    /\ UNCHANGED outsideGateway

InitDiff == DiffInit /\ RecIdle /\ JobsIdle /\ ValIdle /\ HookIdle /\ LoadIdle /\ SumIdle /\ RjIdle /\ TickIdle /\ CacheIdle /\ ApiIdle
NextDiff == DiffCompute
SpecDiff == InitDiff /\ [][NextDiff]_vars

InitReconcile == DiffIdle /\ RecInit /\ JobsIdle /\ ValIdle /\ HookIdle /\ LoadIdle /\ SumIdle /\ RjIdle /\ TickIdle /\ CacheIdle /\ ApiIdle
NextReconcile ==
    \/ ReconcileBuild
    \/ ReconcileBuildFails
    \/ ApplyDirectoryChange
    \/ ApplyRepositoryChange
    \/ SkipRepositoryTeamRemoved
    \/ ApplyCollaboratorChange
    \/ AbortOnInvitationsError
SpecReconcile == InitReconcile /\ [][NextReconcile]_vars

InitJobs == DiffIdle /\ RecIdle /\ JobsInit /\ ValIdle /\ HookIdle /\ LoadIdle /\ SumIdle /\ RjIdle /\ TickIdle /\ CacheIdle /\ ApiIdle
NextJobs ==
    \/ \E o \in OrgNames, kind \in JobKinds : WebhookSend(o, kind)
    \/ SchedulerTick
    \/ SchedulerSend
    \/ SchedulerStop
    \/ RouterForward
    \/ RouterStop
    \/ \E o \in OrgNames : WorkerStart(o)
    \/ \E o \in OrgNames, id \in 1..MaxJobs : HandlerCall(o, id)
    \/ \E o \in OrgNames, id \in 1..MaxJobs : HandlerReturn(o, id)
    \/ \E o \in OrgNames : WorkerStop(o)
    \/ Shutdown
SpecJobs == InitJobs /\ [][NextJobs]_vars

\* The tasks are scheduled fairly, and a handler in progress goes on until it
\* returns.
FairJobs ==
    /\ WF_vars(RouterForward)
    /\ WF_vars(RouterStop)
    /\ WF_vars(SchedulerSend)
    /\ WF_vars(SchedulerStop)
    /\ \A o \in OrgNames :
        /\ WF_vars(WorkerStart(o))
        /\ WF_vars(WorkerStop(o))
        /\ WF_vars(\E id \in 1..MaxJobs : HandlerCall(o, id))
        /\ WF_vars(\E id \in 1..MaxJobs : HandlerReturn(o, id))
\* The jobs engine with one kind of job from the webhook: what a job does
\* in its handler is the same to the tasks for both kinds.
NextJobsFair ==
    \/ \E o \in OrgNames : WebhookSend(o, "Reconcile")
    \/ SchedulerTick
    \/ SchedulerSend
    \/ SchedulerStop
    \/ RouterForward
    \/ RouterStop
    \/ \E o \in OrgNames : WorkerStart(o)
    \/ \E o \in OrgNames, id \in 1..MaxJobs : HandlerCall(o, id)
    \/ \E o \in OrgNames, id \in 1..MaxJobs : HandlerReturn(o, id)
    \/ \E o \in OrgNames : WorkerStop(o)
    \/ Shutdown
SpecJobsFair == InitJobs /\ [][NextJobsFair]_vars /\ FairJobs

InitValidate == DiffIdle /\ RecIdle /\ JobsIdle /\ ValInit /\ HookIdle /\ LoadIdle /\ SumIdle /\ RjIdle /\ TickIdle /\ CacheIdle /\ ApiIdle
NextValidate ==
    \/ Validate
    \/ ValidateAgain
SpecValidate == InitValidate /\ [][NextValidate]_vars

InitWebhook == DiffIdle /\ RecIdle /\ JobsIdle /\ ValIdle /\ HookInit /\ LoadIdle /\ SumIdle /\ RjIdle /\ TickIdle /\ CacheIdle /\ ApiIdle
NextWebhook ==
    \/ Event
    \/ DirectoryChangesSummary
    \/ ServicesChangesSummary
    \/ PostComment
    \/ CreateCheckRun
SpecWebhook == InitWebhook /\ [][NextWebhook]_vars

\* The worker task that runs the validate job goes on until the handler
\* returns.
FairWebhook ==
    /\ WF_vars(Event)
    /\ WF_vars(DirectoryChangesSummary)
    /\ WF_vars(ServicesChangesSummary)
    /\ WF_vars(PostComment)
    /\ WF_vars(CreateCheckRun)
SpecWebhookFair == InitWebhook /\ [][NextWebhook]_vars /\ FairWebhook

InitLoader == DiffIdle /\ RecIdle /\ JobsIdle /\ ValIdle /\ HookIdle /\ LoadInit /\ SumIdle /\ RjIdle /\ TickIdle /\ CacheIdle /\ ApiIdle
NextLoader == ProcessTeams
SpecLoader == InitLoader /\ [][NextLoader]_vars

InitSummary ==
    DiffIdle /\ RecIdle /\ JobsIdle /\ ValIdle /\ HookIdle /\ LoadIdle /\ SumInit /\ RjIdle /\ TickIdle /\ CacheIdle /\ ApiIdle
NextSummary == GetChangesSummary
SpecSummary == InitSummary /\ [][NextSummary]_vars

InitReconcileJob ==
    DiffIdle /\ RecIdle /\ JobsIdle /\ ValIdle /\ HookIdle /\ LoadIdle /\ SumIdle /\ RjInit /\ TickIdle /\ CacheIdle /\ ApiIdle
NextReconcileJob ==
    \/ ServiceReconcile
    \/ RegisterReconciliation
    \/ PostReconciliationComment
    \/ ReturnWithoutComment
SpecReconcileJob == InitReconcileJob /\ [][NextReconcileJob]_vars

InitScheduler ==
    DiffIdle /\ RecIdle /\ JobsIdle /\ ValIdle /\ HookIdle /\ LoadIdle /\ SumIdle /\ RjIdle
        /\ TickInit /\ CacheIdle /\ ApiIdle
NextScheduler ==
    \/ StopRequested
    \/ SchedulerBreak
    \/ IntervalTick
    \/ SendAndSleep
SpecScheduler == InitScheduler /\ [][NextScheduler]_vars

InitCache ==
    DiffIdle /\ RecIdle /\ JobsIdle /\ ValIdle /\ HookIdle /\ LoadIdle /\ SumIdle /\ RjIdle
        /\ TickIdle /\ CacheInit /\ ApiIdle
NextCache ==
    \/ \E o \in OrgNames : ListOrgAdmins(o)
    \/ \E o \in OrgNames : ListOrgMembers(o)
    \/ \E o \in OrgNames, r \in RepoNames : ListRepositoryInvitations(o, r)
    \/ EntryExpires
SpecCache == InitCache /\ [][NextCache]_vars

InitGateway ==
    DiffIdle /\ RecIdle /\ JobsIdle /\ ValIdle /\ HookIdle /\ LoadIdle /\ SumIdle /\ RjIdle
        /\ TickIdle /\ CacheIdle /\ ApiInit
NextGateway == ClientRequest
SpecGateway == InitGateway /\ [][NextGateway]_vars

\* State::diff on its own and inside reconcile.
InitDiffReconcile == InitDiff \/ InitReconcile
NextDiffReconcile ==
    \/ DiffCompute
    \/ ReconcileBuild
    \/ ReconcileBuildFails
    \/ ApplyDirectoryChange
    \/ ApplyRepositoryChange
    \/ SkipRepositoryTeamRemoved
    \/ ApplyCollaboratorChange
    \/ AbortOnInvitationsError
SpecDiffReconcile == InitDiffReconcile /\ [][NextDiffReconcile]_vars

---------------------------------------------------------------------------
(* Properties of the jobs engine (SpecJobs).                               *)

\* C1: for every organization at most one job is being processed at any
\* time, and the gateway calls of two jobs of the same organization never
\* interleave: once another job's call follows a job's call in the trace of
\* the organization, no call of the first job comes after it.
SerialPerOrg ==
    \A o \in OrgNames :
        /\ Cardinality(inflight[o]) <= 1
        /\ \A i, j \in DOMAIN mutTrace[o] : mutTrace[o][i] = mutTrace[o][j] => i = j

\* Two jobs of one organization, one sent by the webhook and one by the
\* scheduler, have both made their gateway calls and returned.
SerialPerOrgWitness ==
    \E o \in OrgNames : \E i, j \in DOMAIN sentLog :
        /\ org_name(sentLog[i]) = o /\ org_name(sentLog[j]) = o
        /\ sentLog[i].from_pr /\ ~sentLog[j].from_pr
        /\ sentLog[i].kind = "Validate"
        /\ {sentLog[i].id, sentLog[j].id} \subseteq Range(mutTrace[o])
        /\ inflight[o] = {}

\* C2: the jobs of an organization are started in the order in which they
\* were sent on the central jobs channel: the jobs the worker of o has
\* started are, in order, the first jobs sent for o.
FifoPerOrg ==
    \A o \in OrgNames :
        LET sent == SelectSeq(sentLog, LAMBDA job : org_name(job) = o)
        IN  /\ Len(started[o]) <= Len(sent)
            /\ \A i \in DOMAIN started[o] : started[o][i] = sent[i].id

\* Three jobs were sent, the first and the third for the same organization,
\* and its worker has started both.
FifoPerOrgWitness ==
    \E o \in OrgNames :
        /\ Len(sentLog) >= 3
        /\ org_name(sentLog[1]) = o /\ org_name(sentLog[2]) # o /\ org_name(sentLog[3]) = o
        /\ started[o] = <<1, 3>>

---------------------------------------------------------------------------
(* Properties of Handler::reconcile (SpecReconcile).                       *)

GatewayFailureNeverAborts ==
    /\ recPc # "aborted"
    /\ recPc = "done" => Len(changes_applied) + Len(skipped)
                            = Len(changes.directory) + Len(changes.repositories)

\* C5: after remove_team(T) was issued successfully, no
\* remove_repository_team(repo, T) is issued in the same run.
CascadeSuppression ==
    \A i, j \in DOMAIN gwTrace :
        (/\ i < j
         /\ gwTrace[i].op = "remove_team" /\ gwTrace[i].ok
         /\ gwTrace[j].op = "remove_repository_team")
        => gwTrace[j].name # gwTrace[i].name

\* The change set had the directory-level and the repository-level removal
\* of a team, remove_team succeeded and the run is over.
CascadeSuppressionWitness ==
    /\ recPc = "done"
    /\ \E i \in DOMAIN gwTrace, k \in DOMAIN changes.repositories :
          /\ gwTrace[i].op = "remove_team" /\ gwTrace[i].ok
          /\ changes.repositories[k].kind = "TeamRemoved"
          /\ changes.repositories[k].name = gwTrace[i].name

\* C6: a RepositoryChange::TeamRemoved(repo, T) is skipped only when a
\* DirectoryChange::TeamRemoved(T) has a record without error in
\* changes_applied.
SkippedOnlyAfterSuccessfulRemoval ==
    \A k \in DOMAIN skipped :
        \E i \in DOMAIN changes_applied :
            /\ changes_applied[i].type = "directory"
            /\ changes_applied[i].change.kind = "TeamRemoved"
            /\ changes_applied[i].change.team = skipped[k].name
            /\ ~changes_applied[i].error

\* C7: every directory change is applied before the first repository change,
\* and the changes of each group are applied in the order of the diff: the
\* directory records are the directory changes handled so far, the repository
\* records are the repository changes handled so far without the skipped
\* ones, and no repository change is handled while a directory change waits.
DirectoryBeforeRepositories ==
    LET dirDone == SubSeq(changes.directory, 1, Len(changes.directory) - Len(dirPending))
        repoDone == SubSeq(changes.repositories, 1,
                           Len(changes.repositories) - Len(repoPending))
        applied(type) == SelectSeq(changes_applied, LAMBDA e : e.type = type)
        kept == SelectSeq(repoDone, LAMBDA c : c \notin Range(skipped))
    IN  /\ \A i, j \in DOMAIN changes_applied :
              (changes_applied[i].type = "repository"
               /\ changes_applied[j].type = "directory") => j < i
        /\ Len(applied("directory")) = Len(dirDone)
        /\ \A i \in DOMAIN dirDone : applied("directory")[i].change = dirDone[i]
        /\ Len(applied("repository")) = Len(kept)
        /\ \A i \in DOMAIN kept : applied("repository")[i].change = kept[i]
        /\ repoDone # <<>> => dirPending = <<>>

\* A run that applied two directory changes and then two repository changes.
DirectoryBeforeRepositoriesWitness ==
    /\ recPc = "done"
    /\ Len(changes.directory) >= 2
    /\ Len(changes.repositories) >= 2
    /\ Len(changes_applied) = Len(changes.directory) + Len(changes.repositories)

\* C8: no gateway call of reconcile targets a repository the platform
\* reports as archived, and an archived repository is in neither the actual
\* nor the desired state.
ArchivedSafety ==
    /\ \A i \in DOMAIN gwTrace :
          gwTrace[i].repo \in RepoNames =>
              ~(svcRepos[gwTrace[i].repo].present /\ svcRepos[gwTrace[i].repo].archived)
    /\ recPc \in {"apply", "done", "aborted"} =>
          \A r \in RepoNames :
              (svcRepos[r].present /\ svcRepos[r].archived) =>
                  /\ ~actual_state.repositories[r].present
                  /\ ~desired_state.repositories[r].present

\* A run over a platform with an archived repository that the configuration
\* lists with a team the platform does not link, and that made gateway calls.
ArchivedSafetyWitness ==
    /\ recPc = "done"
    /\ gwTrace # <<>>
    /\ \E r \in RepoNames :
          /\ svcRepos[r].present /\ svcRepos[r].archived
          /\ cfgRepos[r].present
          /\ cfgRepos[r].teams # svcRepos[r].teams

\* C9: a repository present in the old state and absent from the new one
\* produces no change, and no gateway call of reconcile targets a repository
\* that is absent from the desired state.
NoRepositoryRemoval ==
    recPc \in {"apply", "done", "aborted"} =>
        /\ \A i \in DOMAIN changes.repositories :
              desired_state.repositories[changes.repositories[i].repo].present
        /\ \A i \in DOMAIN gwTrace :
              gwTrace[i].repo \in RepoNames => desired_state.repositories[gwTrace[i].repo].present

\* A run whose actual state has a repository, with teams, that the desired
\* state does not have, and that made gateway calls.
NoRepositoryRemovalWitness ==
    /\ recPc = "done"
    /\ gwTrace # <<>>
    /\ \E r \in RepoNames :
          /\ actual_state.repositories[r].present
          /\ Keys(actual_state.repositories[r].teams) # {}
          /\ ~desired_state.repositories[r].present

---------------------------------------------------------------------------
(* Properties of the diff (SpecDiff).                                      *)

\* C10: State::diff(A, A) has no directory change and no repository change,
\* and Directory::diff(A.directory, A.directory) is empty.
DiffSelfIdentity ==
    (diffPc = "done" /\ diffOld = diffNew) =>
        /\ diffOut.state = NoChanges
        /\ diffOut.directory = <<>>

\* A state with teams, users and a repository without visibility was diffed
\* against itself.
DiffSelfIdentityWitness ==
    /\ diffPc = "done"
    /\ diffOld = diffNew
    /\ Present(diffOld.directory.teams) # {}
    /\ Present(diffOld.directory.users) # {}
    /\ \E r \in Present(diffOld.repositories) : diffOld.repositories[r].visibility = "none"

\* C11: every evaluation of diff(A, B) yields the same sequence of changes,
\* the one that visits teams, repositories and users in lexicographic order
\* of their names.
DiffIsLexicographic ==
    diffPc = "done" =>
        /\ diffOut.state = State_diff(diffOld, diffNew, SortedRepos, SortedTeams,
                                      SortedUsers, SortedFullNames)
        /\ diffOut.directory = Directory_diff(diffOld.directory, diffNew.directory,
                                              SortedTeams, SortedUsers, SortedFullNames)


\* C12: building the desired state succeeds only if every explicit
\* collaborator of every repository has a role at least as high as the
\* highest role given to the user by a team of that repository; when the
\* state is validated, each collaborator with a lower role is reported by
\* an error naming the user, that highest role and a team giving it, and a
\* collaborator whose role equals it is not reported.
CollaboratorVersusTeamRole ==
    valPc = "validated" =>
        LET state == DesiredState(valTeams, valRepos, valSvcRepos, valAdmins)
            TeamsOf(r, u) == {t \in TeamNames :
                                 /\ state.repositories[r].teams[t] # NoRole
                                 /\ state.directory.teams[t].present
                                 /\ u \in state.directory.teams[t].maintainers
                                          \cup state.directory.teams[t].members}
            Explicit == {ru \in RepoNames \X UserNames :
                            /\ state.repositories[ru[1]].present
                            /\ state.repositories[ru[1]].collaborators[ru[2]] # NoRole}
            Lower(ru) == \E t \in TeamsOf(ru[1], ru[2]) :
                            state.repositories[ru[1]].collaborators[ru[2]]
                                < state.repositories[ru[1]].teams[t]
            Reports(e, ru) ==
                /\ e.kind = "collaborator_role"
                /\ e.repo = ru[1]
                /\ e.user = ru[2]
            Reported == {e \in Range(valOut.errors) : e.kind = "collaborator_role"}
        IN  /\ valOut.ok => \A ru \in Explicit : ~Lower(ru)
            /\ valOut.context # "invalid directory configuration" =>
                  /\ \A ru \in Explicit :
                        Lower(ru) =>
                            /\ ~valOut.ok
                            /\ \E e \in Reported :
                                  /\ Reports(e, ru)
                                  /\ e.team \in TeamsOf(ru[1], ru[2])
                                  /\ e.role = state.repositories[ru[1]].teams[e.team]
                                  /\ \A t \in TeamsOf(ru[1], ru[2]) :
                                        state.repositories[ru[1]].teams[t] <= e.role
                  /\ \A e \in Reported :
                        \E ru \in Explicit : Reports(e, ru) /\ Lower(ru)

CollaboratorVersusTeamRoleWitness ==
    /\ valPc = "validated"
    /\ ~valOut.ok
    /\ valOut.context = "invalid github service configuration"
    /\ valRepos["r1"].present
    /\ valRepos["r1"].collaborators["u2"] = Write
    /\ valRepos["r1"].teams["t1"] = Write
    /\ valTeams["t1"].present
    /\ "u2" \in valTeams["t1"].members
    /\ "u2" \notin valAdmins
    /\ \A e \in Range(valOut.errors) : ~(e.repo = "r1" /\ e.user = "u2")
    /\ \E u \in UserNames :
          /\ valRepos["r2"].present
          /\ valRepos["r2"].collaborators[u] = Read
          /\ u \in valTeams["t2"].members
          /\ u \notin valAdmins
          /\ \E e \in Range(valOut.errors) : e.user = u /\ e.repo = "r2" /\ e.role = Maintain


\* C17: validating the same configuration twice against the same snapshot of
\* the platform yields the same aggregate error (the same errors in the same
\* order), or success both times.
ValidationIdempotent ==
    valPc = "revalidated" =>
        /\ valOut2.ok = valOut.ok
        /\ valOut2.context = valOut.context
        /\ valOut2.errors = valOut.errors


\* C13: in every desired state new_from_config returns, no team has an org
\* admin among its members, every org admin the configuration lists in a team
\* (as maintainer or as member) is a maintainer of it, and no repository has
\* an org admin among its explicit collaborators.
OrgAdminFolding ==
    (valPc # "input" /\ valOut.ok) =>
        /\ \A t \in TeamNames :
              valOut.state.directory.teams[t].present =>
                  /\ valOut.state.directory.teams[t].members \cap valAdmins = {}
                  /\ valAdmins \cap (valTeams[t].maintainers \cup valTeams[t].members)
                        \subseteq valOut.state.directory.teams[t].maintainers
        /\ \A r \in RepoNames :
              valOut.state.repositories[r].present =>
                  \A u \in valAdmins : valOut.state.repositories[r].collaborators[u] = NoRole

OrgAdminFoldingWitness ==
    /\ valPc = "validated"
    /\ valOut.ok
    /\ \E u \in valAdmins, t \in TeamNames, r \in RepoNames :
          /\ valTeams[t].present
          /\ u \in valTeams[t].members
          /\ valRepos[r].present
          /\ valRepos[r].collaborators[u] # NoRole
          /\ valOut.state.repositories[r].present


\* C18: for every repository present in both old and new, the changes that
\* repositories_diff emits for it appear in the order teams removed, teams
\* added, team roles updated, collaborators removed, collaborators added,
\* collaborator roles updated, visibility updated.
RepositoryChangesOrder ==
    diffPc = "done" =>
        LET out == diffOut.state.repositories
            Rank(kind) == CASE kind = "TeamRemoved" -> 1
                            [] kind = "TeamAdded" -> 2
                            [] kind = "TeamRoleUpdated" -> 3
                            [] kind = "CollaboratorRemoved" -> 4
                            [] kind = "CollaboratorAdded" -> 5
                            [] kind = "CollaboratorRoleUpdated" -> 6
                            [] kind = "VisibilityUpdated" -> 7
                            [] OTHER -> 0
        IN  \A i, j \in 1..Len(out) :
                (/\ i < j
                 /\ out[i].repo = out[j].repo
                 /\ diffOld.repositories[out[i].repo].present
                 /\ diffNew.repositories[out[i].repo].present)
                => /\ Rank(out[i].kind) > 0
                   /\ Rank(out[i].kind) <= Rank(out[j].kind)

RepositoryChangesOrderWitness ==
    /\ diffPc = "done"
    /\ diffOld.repositories["r1"].present
    /\ diffNew.repositories["r1"].present
    /\ {c.kind : c \in {c \in Range(diffOut.state.repositories) : c.repo = "r1"}}
          = {"TeamRemoved", "TeamAdded", "CollaboratorRemoved", "CollaboratorAdded",
             "VisibilityUpdated"}

\* C19: Directory::diff emits TeamRemoved(name) exactly for the teams of old
\* that new has not, and TeamAdded(team) exactly for the teams of new that
\* old has not, carrying the whole new team; every TeamRemoved precedes every
\* TeamAdded, and an added team has no maintainer or member change.
TeamsAddedAndRemoved ==
    diffPc = "done" =>
        LET out == diffOut.directory
            to == Present(diffOld.directory.teams)
            tn == Present(diffNew.directory.teams)
            Removed == {i \in 1..Len(out) : out[i].kind = "TeamRemoved"}
            Added == {i \in 1..Len(out) : out[i].kind = "TeamAdded"}
        IN  /\ {out[i].team : i \in Removed} = to \ tn
            /\ Cardinality(Removed) = Cardinality(to \ tn)
            /\ {out[i].team : i \in Added} = tn \ to
            /\ Cardinality(Added) = Cardinality(tn \ to)
            /\ \A i \in Added :
                  /\ out[i].maintainers = diffNew.directory.teams[out[i].team].maintainers
                  /\ out[i].members = diffNew.directory.teams[out[i].team].members
            /\ \A i \in Removed, j \in Added : i < j
            /\ \A i \in 1..Len(out) :
                  out[i].kind \in {"TeamMaintainerAdded", "TeamMaintainerRemoved",
                                   "TeamMemberAdded", "TeamMemberRemoved"}
                  => out[i].team \notin tn \ to

TeamsAddedAndRemovedWitness ==
    /\ diffPc = "done"
    /\ \E i, j \in 1..Len(diffOut.directory) :
          /\ diffOut.directory[i].kind = "TeamRemoved"
          /\ diffOut.directory[j].kind = "TeamAdded"
          /\ diffOut.directory[j].maintainers # {}
          /\ diffOut.directory[j].members # {}

\* C20: for every team present in both directories, Directory::diff emits
\* TeamMaintainerRemoved, TeamMemberRemoved, TeamMaintainerAdded and
\* TeamMemberAdded exactly for the differences of the maintainers and of the
\* members, the removals of the team before its additions; a user moved
\* from the members to the maintainers yields TeamMemberRemoved(t, u) then
\* TeamMaintainerAdded(t, u).
TeamMembersAddedAndRemoved ==
    diffPc = "done" =>
        LET out == diffOut.directory
            old == diffOld.directory.teams
            new == diffNew.directory.teams
            Of(t, kind) == {i \in 1..Len(out) : out[i].kind = kind /\ out[i].team = t}
            Exactly(t, kind, S) ==
                /\ {out[i].user : i \in Of(t, kind)} = S
                /\ Cardinality(Of(t, kind)) = Cardinality(S)
            OfTeam(t) == SelectSeq(out, LAMBDA c :
                            /\ c.team = t
                            /\ c.kind \notin {"TeamAdded", "TeamRemoved"})
        IN  \A t \in Present(old) \cap Present(new) :
                /\ Exactly(t, "TeamMaintainerRemoved", old[t].maintainers \ new[t].maintainers)
                /\ Exactly(t, "TeamMemberRemoved", old[t].members \ new[t].members)
                /\ Exactly(t, "TeamMaintainerAdded", new[t].maintainers \ old[t].maintainers)
                /\ Exactly(t, "TeamMemberAdded", new[t].members \ old[t].members)
                /\ \A i \in Of(t, "TeamMaintainerRemoved") \cup Of(t, "TeamMemberRemoved"),
                      j \in Of(t, "TeamMaintainerAdded") \cup Of(t, "TeamMemberAdded") : i < j
                /\ \A u \in UserNames :
                      (/\ old[t].members \ new[t].members = {u}
                       /\ new[t].maintainers \ old[t].maintainers = {u}
                       /\ old[t].maintainers \subseteq new[t].maintainers
                       /\ new[t].members \subseteq old[t].members)
                      => OfTeam(t) = <<DChange("TeamMemberRemoved", t, u),
                                       DChange("TeamMaintainerAdded", t, u)>>

TeamMembersAddedAndRemovedWitness ==
    /\ diffPc = "done"
    /\ diffOld.directory.teams["t1"] = Team({"u1"}, {"u2"})
    /\ diffNew.directory.teams["t1"] = Team({"u1", "u2"}, {})
    /\ diffOut.directory = <<DChange("TeamMemberRemoved", "t1", "u2"),
                             DChange("TeamMaintainerAdded", "t1", "u2")>>


\* C15: shutdown never cancels in-flight work: a job whose processing has
\* started is still in progress, with its worker running, while the stop
\* signal is pending, and when the worker has exited every job it started
\* has made its calls and returned.
ShutdownDrainsInFlight ==
    \A o \in OrgNames :
        /\ (stopSignal /\ inflight[o] # {}) => workerPc[o] = "busy"
        /\ workerPc[o] = "stopped" =>
              /\ inflight[o] = {}
              /\ \A id \in Range(started[o]) : id \in Range(mutTrace[o])

ShutdownDrainsInFlightWitness ==
    \E o \in OrgNames :
        /\ stopSignal
        /\ workerPc[o] = "stopped"
        /\ started[o] # <<>>
        /\ \E p \in OrgNames : p # o /\ inflight[p] # {} /\ workerPc[p] = "busy"


\* C14: a webhook request whose signature header is missing, malformed, or
\* valid for neither the primary nor the fallback secret is rejected with
\* status 400, sends no job on the jobs channel and creates no check-run; a
\* signature valid for either secret is accepted.
InvalidSignatureRejected ==
    hookPc = "responded" =>
        LET sig == request.signature
            ValidFor(key) ==
                /\ sig.present
                /\ sig.ascii
                /\ sig.prefix = "sha256="
                /\ sig.hex
                /\ sig.bytes = Hmac(key, request.body)
            Valid == \/ ValidFor(webhook_secret)
                     \/ (webhook_secret_fallback # "none"
                         /\ ValidFor(webhook_secret_fallback))
        IN  /\ ~Valid =>
                  /\ response.status = 400
                  /\ jobs_tx = <<>>
                  /\ vjPc = "off"
                  /\ ghLog = <<>>
            /\ Valid => response.msg # "no valid signature found"

InvalidSignatureRejectedWitness ==
    /\ hookPc = "responded"
    /\ request.signature = Header(TRUE, "sha256=", TRUE, Hmac("s2", "b1"))
    /\ webhook_secret_fallback = "none"
    /\ request.event_header = "pull_request"
    /\ request.json_ok
    /\ request.org = "o1"
    /\ request.action = "opened"
    /\ pr_updates_config(request) = "yes"
    /\ response = Response(400, "no valid signature found")

UserChangesDiscarded ==
    LET UserKind(c) == c.kind \in {"UserAdded", "UserRemoved", "UserUpdated"}
    IN  /\ diffPc = "done" =>
              /\ \A c \in Range(diffOut.state.directory) : ~UserKind(c)
              /\ (/\ diffOld.directory.teams = diffNew.directory.teams
                  /\ diffOld.repositories = diffNew.repositories)
                 => diffOut.state = [directory |-> <<>>, repositories |-> <<>>]
        /\ \A c \in Range(changes.directory) : ~UserKind(c)
        /\ \A i \in DOMAIN changes_applied : ~UserKind(changes_applied[i].change)
        /\ \A i \in DOMAIN gwTrace :
              gwTrace[i].repo = "" =>
                  /\ gwTrace[i].name \in TeamNames
                  /\ gwTrace[i].op \in {"add_team", "remove_team", "add_team_maintainer",
                                        "remove_team_maintainer", "add_team_member",
                                        "remove_team_member"}

UserChangesDiscardedWitness ==
    /\ diffPc = "done"
    /\ diffOld.directory.users # diffNew.directory.users
    /\ diffOld.directory.teams = diffNew.directory.teams
    /\ diffOld.repositories = diffNew.repositories
    /\ \E c \in Range(diffOut.directory) : c.kind = "UserUpdated"
    /\ diffOut.state = [directory |-> <<>>, repositories |-> <<>>]


\* C22: for every repository present in both old and new and every team or
\* collaborator k, repositories_diff emits Removed(k) iff k is only in old,
\* Added(k, new role) iff k is only in new, RoleUpdated(k, new role) iff k is
\* on both sides with different roles, and nothing for k when the roles are
\* equal; a repository only in new yields a single RepositoryAdded carrying
\* the whole record and no change of a team or of a collaborator.
RepositoryKeysDiff ==
    diffPc = "done" =>
        LET out == diffOut.state.repositories
            old == diffOld.repositories
            new == diffNew.repositories
            Of(r, kind) == {i \in 1..Len(out) : out[i].repo = r /\ out[i].kind = kind}
            Exactly(r, kind, S) ==
                /\ {<<out[i].name, out[i].role>> : i \in Of(r, kind)} = S
                /\ Cardinality(Of(r, kind)) = Cardinality(S)
            In(m) == {k \in DOMAIN m : m[k] # NoRole}
            Removed(mo, mn) == {<<k, NoRole>> : k \in In(mo) \ In(mn)}
            Added(mo, mn) == {<<k, mn[k]>> : k \in In(mn) \ In(mo)}
            Updated(mo, mn) == {<<k, mn[k]>> : k \in {k \in In(mn) \cap In(mo) : mn[k] # mo[k]}}
        IN  /\ \A r \in RepoNames :
                  (old[r].present /\ new[r].present) =>
                      /\ Exactly(r, "TeamRemoved", Removed(old[r].teams, new[r].teams))
                      /\ Exactly(r, "TeamAdded", Added(old[r].teams, new[r].teams))
                      /\ Exactly(r, "TeamRoleUpdated", Updated(old[r].teams, new[r].teams))
                      /\ Exactly(r, "CollaboratorRemoved",
                                 Removed(old[r].collaborators, new[r].collaborators))
                      /\ Exactly(r, "CollaboratorAdded",
                                 Added(old[r].collaborators, new[r].collaborators))
                      /\ Exactly(r, "CollaboratorRoleUpdated",
                                 Updated(old[r].collaborators, new[r].collaborators))
                      /\ Of(r, "RepositoryAdded") = {}
            /\ \A r \in RepoNames :
                  (~old[r].present /\ new[r].present) =>
                      \E i \in 1..Len(out) :
                          /\ {j \in 1..Len(out) : out[j].repo = r} = {i}
                          /\ out[i].kind = "RepositoryAdded"
                          /\ out[i].teams = new[r].teams
                          /\ out[i].collaborators = new[r].collaborators
                          /\ out[i].visibility = new[r].visibility

RepositoryKeysDiffWitness ==
    /\ diffPc = "done"
    /\ diffOld.repositories["r1"].present
    /\ diffNew.repositories["r1"].present
    /\ ~diffOld.repositories["r2"].present
    /\ \E c \in Range(diffOut.state.repositories) : c.kind = "RepositoryAdded" /\ c.repo = "r2"
    /\ \E c \in Range(diffOut.state.repositories) :
          c.kind = "TeamAdded" /\ c.repo = "r1" /\ c.role = Read
    /\ \E c \in Range(diffOut.state.repositories) :
          c.kind = "TeamRoleUpdated" /\ c.repo = "r1" /\ c.role = Write
    /\ \E c \in Range(diffOut.state.repositories) :
          c.kind = "CollaboratorAdded" /\ c.repo = "r1" /\ c.role = Write
    /\ diffOld.repositories["r1"].collaborators["u2"] = Read
    /\ diffNew.repositories["r1"].collaborators["u2"] = Read

FoldingWithoutMaintainers ==
    (/\ valPc = "validated"
     /\ valTeams = [t1 |-> Team({}, {"u1", "u2"}), t2 |-> NoTeam]
     /\ valRepos = [r \in RepoNames |-> NoRepo]
     /\ valAdmins = {"u2"}
     /\ valMembers = UserNames)
    => /\ valOut.ok
       /\ valOut.state.directory.teams["t1"].maintainers = {"u2"}
       /\ valOut.state.directory.teams["t1"].members = {"u1"}


\* C25: after the passes of the loader, a team with a formation has as
\* maintainers the sorted, duplicate-free union of its own maintainers and
\* of the maintainers of every team the formation names, and likewise for
\* its members; teams a {maintainers [m1], members [x1]} and b {formation
\* [a], maintainers [m2]} give b maintainers [m1, m2] and members [x1].
CompositeTeamExpansion ==
    loadPc = "processed" =>
        LET Elems(o) == IF o.some THEN {o.v[i] : i \in 1..Len(o.v)} ELSE {}
            Named(t) == {j \in 1..Len(loadCfg) :
                            \E k \in 1..Len(t.formation.v) : loadCfg[j].name = t.formation.v[k]}
            Sorted(S) == InOrder(S, LoaderUsers)
            Result(o) == IF o.some THEN o.v ELSE <<>>
        IN  /\ \A i \in 1..Len(loadCfg) :
                  loadCfg[i].formation.some =>
                      /\ Result(loadTeams[i].maintainers)
                            = Sorted(Elems(loadCfg[i].maintainers)
                                     \cup UNION {Elems(loadCfg[j].maintainers) :
                                                    j \in Named(loadCfg[i])})
                      /\ Result(loadTeams[i].members)
                            = Sorted(Elems(loadCfg[i].members)
                                     \cup UNION {Elems(loadCfg[j].members) :
                                                    j \in Named(loadCfg[i])})
            /\ loadCfg = <<[name |-> "a", maintainers |-> [some |-> TRUE, v |-> <<"m1">>],
                            members |-> [some |-> TRUE, v |-> <<"x1">>],
                            formation |-> [some |-> FALSE, v |-> <<>>]],
                           [name |-> "b", maintainers |-> [some |-> TRUE, v |-> <<"m2">>],
                            members |-> [some |-> FALSE, v |-> <<>>],
                            formation |-> [some |-> TRUE, v |-> <<"a">>]]>>
               => /\ Result(loadTeams[2].maintainers) = <<"m1", "m2">>
                  /\ Result(loadTeams[2].members) = <<"x1">>

CompositeTeamExpansionWitness ==
    /\ loadPc = "processed"
    /\ loadCfg[1].maintainers.v = <<"m1">>
    /\ loadCfg[1].members.v = <<"x1">>
    /\ ~loadCfg[1].formation.some
    /\ loadCfg[2].formation.v = <<"a">>
    /\ loadCfg[2].maintainers.v = <<"m2">>
    /\ ~loadCfg[2].members.some
    /\ loadTeams[2].maintainers.v = <<"m1", "m2">>
    /\ loadTeams[2].members.v = <<"x1">>


\* C26: get_changes_summary returns an error when the head desired state
\* cannot be built; when the head builds and the base does not it returns no
\* change with base_ref_config_status = Invalid and no error; when both build
\* it returns the repository changes of diff(base, head) with status Valid,
\* unless the validation of the added team members and collaborators fails,
\* and then it returns that error.
ChangesSummaryOutcome ==
    sumPc = "done" =>
        LET Builds(cfg, fetched) ==
                /\ fetched
                /\ ConfigValid(cfg.teams, cfg.repos, SummaryRepositories, SummaryAdmins,
                               SummaryMembers)
            State(cfg) == DesiredState(cfg.teams, cfg.repos, SummaryRepositories,
                                       SummaryAdmins)
            old == State(sumBase)
            new == State(sumHead)
            Added ==
                {u \in UserNames :
                    \/ \E t \in TeamNames :
                          /\ old.directory.teams[t].present
                          /\ new.directory.teams[t].present
                          /\ u \in new.directory.teams[t].members
                                   \ old.directory.teams[t].members
                    \/ \E r \in RepoNames :
                          /\ old.repositories[r].present
                          /\ new.repositories[r].present
                          /\ new.repositories[r].collaborators[u] # NoRole
                          /\ old.repositories[r].collaborators[u] = NoRole}
            Refused == {u \in Added : sumLogins[u] # "same"}
        IN  IF ~Builds(sumHead, sumFetch.head)
            THEN ~sumOut.ok
            ELSE IF ~Builds(sumBase, sumFetch.base)
            THEN /\ sumOut.ok
                 /\ sumOut.changes = <<>>
                 /\ sumOut.base_ref_config_status = "Invalid"
            ELSE IF Refused # {}
            THEN /\ ~sumOut.ok
                 /\ {e.user : e \in Range(sumOut.errors)} = Refused
            ELSE /\ sumOut.ok
                 /\ sumOut.base_ref_config_status = "Valid"
                 /\ \E ordR \in Perms(RepoNames), ordT \in Perms(TeamNames),
                       ordU \in Perms(UserNames) :
                       sumOut.changes = repositories_diff(old.repositories,
                                                          new.repositories,
                                                          ordR, ordT, ordU)

ChangesSummaryOutcomeWitness ==
    /\ sumPc = "done"
    /\ sumFetch = [head |-> TRUE, base |-> TRUE]
    /\ sumBase.teams["t1"] = Team({"u1"}, {})
    /\ sumHead.teams["t1"] = Team({"u1"}, {"u2"})
    /\ sumBase.repos["r1"].present
    /\ sumHead.repos["r1"].collaborators["u1"] = Write
    /\ sumBase.repos["r1"].collaborators["u1"] = NoRole
    /\ sumLogins = [u1 |-> "other", u2 |-> "err"]
    /\ ~sumOut.ok
    /\ Len(sumOut.errors) = 2

\* The positions of the calls of one operation in the handler's log.
RjCalls(op) == {i \in 1..Len(rjLog) : rjLog[i].op = op}

\* C27: a processed reconcile job registers the reconciliation exactly once,
\* after every enabled service's reconcile has returned (each called once,
\* succeeded or failed, and reported to the database in the matching map);
\* a completion comment is posted after the registration exactly when the
\* input carries a pr_number, on that pull request, whatever the
\* registration's outcome was; a job built by the scheduler posts none.
ReconcileJobFlow ==
    /\ Cardinality(RjCalls("register_reconciliation")) <= 1
    /\ Cardinality(RjCalls("post_comment")) <= 1
    /\ \A i \in RjCalls("register_reconciliation") :
        /\ \A j \in 1..(i - 1) : rjLog[j].op = "reconcile"
        /\ \A s \in services :
            Cardinality({j \in 1..(i - 1) : rjLog[j].service = s}) = 1
        /\ rjLog[i].applied = {rjLog[j].service : j \in {k \in 1..(i - 1) : rjLog[k].ok}}
        /\ rjLog[i].errors = {rjLog[j].service : j \in {k \in 1..(i - 1) : ~rjLog[k].ok}}
        /\ \A j \in (i + 1)..Len(rjLog) : rjLog[j].op = "post_comment"
    /\ \A i \in RjCalls("post_comment") :
        /\ RjCalls("register_reconciliation") = {i - 1}
        /\ rjLog[i].pr_number = input.pr_number
        /\ input.pr_number.some
    /\ rjPc \in {"registered", "returned"} =>
        Cardinality(RjCalls("register_reconciliation")) = 1
    /\ rjPc = "returned" =>
        (RjCalls("post_comment") # {} <=> input.pr_number.some)
    /\ (\E o \in OrgNames : input = ReconcileInput_default(o)) =>
        RjCalls("post_comment") = {}

\* A job from a pull request whose service failed and whose registration
\* failed has posted its comment.
ReconcileJobFlowWitness ==
    /\ rjPc = "returned"
    /\ input = ReconcileInput_new("o2", 8)
    /\ Len(rjLog) = 3
    /\ rjLog[1] = ReconcileCall("github", FALSE)
    /\ rjLog[2] = RegisterCall({}, {"github"}, FALSE)
    /\ rjLog[3].op = "post_comment"

\* A round is a tick and one send per organization.
RoundLen == Len(Orgs) + 1

\* C28: every tick of the scheduler is followed by exactly one Reconcile
\* job per configured organization, in the configuration's order, none of
\* them with pull request data, the next thing happening no sooner than
\* the delay after each send; and each tick answers a period boundary of
\* its own: a tick that comes late stands for all the boundaries that have
\* passed, which are not replayed after it.
SchedulerRounds ==
    /\ \A i \in 1..Len(tkLog) :
        LET k == (i - 1) % RoundLen
        IN  IF k = 0
            THEN tkLog[i].ev = "tick"
            ELSE /\ tkLog[i].ev = "send"
                 /\ tkLog[i].job = ReconcileInput_default(Orgs[k])
                 /\ ~tkLog[i].job.pr_number.some
    /\ tkPc \in {"select", "stopped"} => Len(tkLog) % RoundLen = 0
    /\ tkPc = "round" => Len(tkLog) % RoundLen = tkIdx
    /\ \A i \in 1..Len(tkLog) :
        tkLog[i].ev = "send" =>
            IF i < Len(tkLog)
            THEN tkLog[i + 1].at >= tkLog[i].at + SEND_DELAY
            ELSE clock >= tkLog[i].at + SEND_DELAY
    /\ \A i \in 1..Len(tkLog), j \in 1..Len(tkLog) :
        (i < j /\ tkLog[i].ev = "tick" /\ tkLog[j].ev = "tick") =>
            (tkLog[j].at \div RECONCILE_FREQUENCY) > (tkLog[i].at \div RECONCILE_FREQUENCY)

\* A round that ran over two period boundaries has been followed by a tick,
\* a whole round, and the wait for the next boundary.
SchedulerRoundsWitness ==
    /\ Len(tkLog) = 3 * RoundLen
    /\ tkLog[RoundLen + 1].at - tkLog[1].at > 2 * RECONCILE_FREQUENCY
    /\ tkLog[RoundLen + 1].at % RECONCILE_FREQUENCY # 0
    /\ tkLog[2 * RoundLen + 1].at % RECONCILE_FREQUENCY = 0
    /\ tkPc = "select"

\* C29: a reconcile whose build of the actual or of the desired state fails
\* returns the error having called no mutating operation of the platform
\* and having left the platform as it was; a mutating call is made only
\* once both states are built and `changes` is their diff.
BuildFailureMutatesNothing ==
    /\ [](recPc \in {"start", "failed"} => gwTrace = <<>> /\ changes_applied = <<>>)
    /\ [](gwTrace # <<>> =>
            /\ recPc \in {"apply", "done", "aborted"}
            /\ desired_state = DesiredState(cfgTeams, cfgRepos, svcRepos, orgAdmins)
            /\ \E ordR \in Perms(RepoNames), ordT \in Perms(TeamNames),
                  ordU \in Perms(UserNames), ordF \in Perms(FullNames) :
                  changes = State_diff(actual_state, desired_state, ordR, ordT, ordU, ordF))
    /\ [][recPc' = "failed" => UNCHANGED platformVars]_vars

\* The configuration is not valid and reconcile has returned the error.
BuildFailureMutatesNothingWitness ==
    /\ recPc = "failed"
    /\ ~ConfigValid(cfgTeams, cfgRepos, svcRepos, orgAdmins, orgMembers)

\* C30: applying CollaboratorRemoved or CollaboratorRoleUpdated makes one
\* gateway call, on the change's repository and user: when the invitations
\* listed for the repository hold a pending invitation of the user, the call
\* is remove_repository_invitation, respectively
\* update_repository_invitation, on that invitation; otherwise it is
\* remove_repository_collaborator, respectively
\* update_repository_collaborator_role.  (An invitation is identified by
\* its repository and invitee; the list is the one the step has read, which
\* the step leaves in invCache.)
InvitationOrCollaborator ==
    [][(/\ recPc = "apply"
        /\ repoPending # <<>>
        /\ Head(repoPending).kind \in {"CollaboratorRemoved", "CollaboratorRoleUpdated"}
        /\ repoPending' = Tail(repoPending))
       => LET c == Head(repoPending)
              listed == invCache'[c.repo].invitations
              call == gwTrace'[Len(gwTrace')]
          IN  /\ Len(gwTrace') = Len(gwTrace) + 1
              /\ call.repo = c.repo
              /\ call.name = c.name
              /\ invCache'[c.repo].valid
              /\ IF listed[c.name] # NoRole
                 THEN call.op = IF c.kind = "CollaboratorRemoved"
                                THEN "remove_repository_invitation"
                                ELSE "update_repository_invitation"
                 ELSE call.op = IF c.kind = "CollaboratorRemoved"
                                THEN "remove_repository_collaborator"
                                ELSE "update_repository_collaborator_role"]_vars

\* The role of a user whose invitation is pending has been updated on the
\* invitation.
InvitationOrCollaboratorWitness ==
    /\ gwTrace # <<>>
    /\ LET call == gwTrace[Len(gwTrace)]
       IN  /\ call.op = "update_repository_invitation"
           /\ call.ok
           /\ invCache[call.repo].invitations[call.name] # NoRole

\* C31: a memoized list operation called for an organization never returns
\* an entry that a call for another organization has stored.
CacheKeyedByOrganization ==
    lastCall.hit => lastCall.stored_by = lastCall.org

\* C32: in the actual state that new_from_service returns, no org admin has
\* a role in any repository's collaborators, an org admin whose only link
\* to the repository is a pending invitation included.
NoOrgAdminAmongCollaborators ==
    recPc \in {"apply", "done", "aborted"} =>
        \A r \in RepoNames, u \in orgAdmins :
            actual_state.repositories[r].present =>
                actual_state.repositories[r].collaborators[u] = NoRole

\* C33: when an operation of the gateway returns a RateLimited or Transient
\* error, the request that failed was attempted three times; when it
\* returns any other error, the request was attempted once; no request is
\* attempted more than three times.
RetriableErrorsRetried ==
    LET Attempts(req) == Cardinality({i \in 1..Len(apiLog) : apiLog[i].request = req})
    IN  /\ \A i \in 1..Len(apiLog) : Attempts(apiLog[i].request) <= 3
        /\ (apiPc = "returned" /\ apiResult \in {"RateLimited", "Transient"}) =>
                Attempts(apiLog[Len(apiLog)].request) = 3
        /\ (apiPc = "returned" /\ apiResult \in ErrorKinds \ {"RateLimited", "Transient"}) =>
                Attempts(apiLog[Len(apiLog)].request) = 1

\* C34: the handler's answer to a correctly signed pull_request event.  For a
\* registered organization and a pull request on the configured repository
\* and branch that changes a configuration file: opened or synchronize
\* sends exactly one Validate job, after the attempt to create the
\* in-progress check-run, whether the attempt succeeded or not; closed with
\* merged sends exactly one Reconcile job.  Closed without merge, another
\* action, an unregistered organization or a pull request without a
\* configuration file sends no job.  All these return success.
PullRequestEventJobs ==
    [][(/\ hookPc = "request"
        /\ hookPc' = "responded"
        /\ verify_signature(request.signature, webhook_secret, webhook_secret_fallback,
                            request.body)
        /\ request.event_header = "pull_request"
        /\ request.json_ok)
       => LET sent == SubSeq(jobs_tx', Len(jobs_tx) + 1, Len(jobs_tx'))
              registered == request.org \in OrgNames
              on_config == /\ request.repository = OrgRepository
                           /\ request.base_ref = OrgBranch
              changes_config == on_config /\ request.files = "cfg"
              no_config_file == request.files = "other"
          IN  /\ (registered /\ changes_config
                    /\ request.action \in {"opened", "synchronize"}) =>
                    /\ Len(sent) = 1
                    /\ sent[1].kind = "Validate"
                    /\ sent[1].org = request.org
                    /\ hookCalls' = <<"create_check_run", "jobs_tx.send">>
                    /\ response'.status = 200
              /\ (registered /\ changes_config
                    /\ request.action = "closed" /\ request.merged) =>
                    /\ Len(sent) = 1
                    /\ sent[1].kind = "Reconcile"
                    /\ sent[1].org = request.org
                    /\ response'.status = 200
              /\ (\/ request.action = "closed" /\ ~request.merged
                  \/ request.action \notin {"opened", "synchronize", "closed"}
                  \/ ~registered
                  \/ no_config_file) =>
                    /\ sent = <<>>
                    /\ hookCalls' = <<>>
                    /\ ghLog' = ghLog
                    /\ response'.status = 200]_vars

\* A synchronize event whose in-progress check-run could not be created has
\* sent its Validate job.
PullRequestEventJobsWitness ==
    /\ hookPc = "responded"
    /\ request.action = "synchronize"
    /\ pr_updates_config(request) = "yes"
    /\ response.status = 200
    /\ ghLog = <<>>
    /\ hookCalls = <<"create_check_run", "jobs_tx.send">>
    /\ Len(jobs_tx) = 1
    /\ jobs_tx[1].kind = "Validate"

\* C35: once the stop channel is signalled, the router, every organization
\* worker and the scheduler eventually exit (the handlers in progress
\* return, and nothing is sent after the jobs already on their way).
ShutdownTerminates ==
    stopSignal ~> (/\ routerPc = "stopped"
                   /\ schedPc = "stopped"
                   /\ \A o \in OrgNames : workerPc[o] = "stopped")

\* Everything has exited, after a job was still processed for o1.
ShutdownTerminatesWitness ==
    /\ stopSignal
    /\ routerPc = "stopped"
    /\ schedPc = "stopped"
    /\ \A o \in OrgNames : workerPc[o] = "stopped"
    /\ started["o1"] # <<>>

\* C36: when a run of reconcile is over, every mutating call it has made on
\* the platform has its record, with the change and the call's outcome, in
\* the list reconcile returns to the job handler (which hands it to
\* register_reconciliation); a run that returns an error returns no list.
MutationsReported ==
    recPc \in {"done", "aborted"} =>
        LET returned == IF recPc = "done" THEN changes_applied ELSE <<>>
        IN  \A i \in DOMAIN gwTrace :
                /\ i \in DOMAIN returned
                /\ returned[i].error = ~gwTrace[i].ok
                /\ IF returned[i].type = "directory"
                   THEN gwTrace[i].name = returned[i].change.team
                   ELSE /\ gwTrace[i].repo = returned[i].change.repo
                        /\ gwTrace[i].name = returned[i].change.name

\* C37: a worker exits only from its select with its own channel empty, so
\* no job forwarded to it is left behind: a job leaves the channel only by
\* being started, and the channel of a worker that has exited is empty.
WorkerExitsOnlyWhenIdle ==
    /\ [](\A o \in OrgNames : workerPc[o] = "stopped" =>
                                 orgChan[o] = <<>> /\ inflight[o] = {})
    /\ [][\A o \in OrgNames :
            /\ (workerPc[o] # "stopped" /\ workerPc'[o] = "stopped") =>
                    orgChan[o] = <<>> /\ stopSignal
            /\ (orgChan[o] # <<>> /\ orgChan'[o] # orgChan[o]
                    /\ Len(orgChan'[o]) <= Len(orgChan[o])) =>
                    /\ orgChan'[o] = Tail(orgChan[o])
                    /\ started'[o] = Append(started[o], Head(orgChan[o]).id)]_vars

\* The worker of o1 has taken two jobs from its channel and has exited on
\* the signal.
WorkerExitsOnlyWhenIdleWitness ==
    /\ stopSignal
    /\ workerPc["o1"] = "stopped"
    /\ Len(started["o1"]) >= 2

\* C38: every job of a configured organization that is sent on the central
\* channel before the stop channel is signalled is eventually processed by
\* the worker of its organization.
NoJobLost ==
    \A o \in OrgNames, id \in 1..MaxJobs :
        (~stopSignal /\ \E i \in DOMAIN sentLog : sentLog[i].id = id /\ sentLog[i].org = o)
            ~> (id \in Range(started[o]) /\ id \notin inflight[o])

\* C39: every in-progress check-run created by the webhook handler for a head
\* SHA is eventually followed by a completed check-run for the same SHA, also
\* when posting the validation comment fails (the one excuse is that the
\* request creating the completed check-run is itself refused).
InProgressCheckRunCompleted ==
    (\E i \in DOMAIN ghLog :
        /\ ghLog[i].call = "create_check_run"
        /\ ghLog[i].status = "in_progress"
        /\ ghLog[i].head_sha = request.head_sha)
      ~> (\/ \E j \in DOMAIN ghLog :
                /\ ghLog[j].call = "create_check_run"
                /\ ghLog[j].status = "completed"
                /\ ghLog[j].conclusion \in {"success", "failure"}
                /\ ghLog[j].head_sha = request.head_sha
          \/ vjReturn = "create_check_run_error")

\* C40: the expansion of composite teams is single-level and independent of
\* the order of the teams: a team with a formation receives the users the
\* file lists for the teams it names, and no others, so the users of a team
\* named only by a named team are not received; and the same teams in any
\* other order give every team the same lists.
SingleLevelOrderIndependent ==
    loadPc = "processed" =>
        LET Users(o) == IF o.some THEN {o.v[i] : i \in 1..Len(o.v)} ELSE {}
            Named(i) == {j \in 1..Len(loadCfg) :
                            /\ loadCfg[i].formation.some
                            /\ \E k \in 1..Len(loadCfg[i].formation.v) :
                                  loadCfg[j].name = loadCfg[i].formation.v[k]}
        IN  /\ \A i \in 1..Len(loadCfg) :
                  /\ loadTeams[i].name = loadCfg[i].name
                  /\ Users(loadTeams[i].maintainers)
                        = Users(loadCfg[i].maintainers)
                          \cup UNION {Users(loadCfg[j].maintainers) : j \in Named(i)}
                  /\ Users(loadTeams[i].members)
                        = Users(loadCfg[i].members)
                          \cup UNION {Users(loadCfg[j].members) : j \in Named(i)}
            /\ \A p \in Permutations(1..Len(loadCfg)) :
                  LET other == remove_duplicates(process_composite_teams(reorder(loadCfg, p)))
                  IN  \A i \in 1..Len(loadCfg) : other[i] = loadTeams[p[i]]

\* The file lists b {formation [c], maintainers [m2]}, a {formation [b]} and
\* c {maintainers [m1]} in this order: a receives m2 and not m1.
SingleLevelOrderIndependentWitness ==
    /\ loadPc = "processed"
    /\ Len(loadCfg) = 3
    /\ loadCfg[1] = LegacyTeam("b", Some(<<"m2">>), None, Some(<<"c">>))
    /\ loadCfg[2] = LegacyTeam("a", None, None, Some(<<"b">>))
    /\ loadCfg[3] = LegacyTeam("c", Some(<<"m1">>), None, None)
    /\ loadTeams[2].maintainers = Some(<<"m2">>)
    /\ loadTeams[1].maintainers = Some(<<"m1", "m2">>)

=============================================================================
